---- MODULE Spec2Model ----
(***************************************************************************)
(* Clawdbot message pipeline: ClawdBot.processMessage (bot facade),        *)
(* GeminiAI.processMessage (orchestrator), CommandParser.parseCommands,    *)
(* TaskExecutor.execute and the LocalNLP classifier.                       *)
(*                                                                         *)
(* JavaScript strings are TLA+ strings; Len, SubSeq and \o are used on     *)
(* them character by character.  JavaScript values that may be null,       *)
(* missing or of another type (the parsed model reply) are tagged records. *)
(* Characters outside ASCII (emoji, bullets) are left out of the string    *)
(* literals copied from the source.                                        *)
(***************************************************************************)
EXTENDS Integers, Sequences, FiniteSets, TLC

----------------------------------------------------------------------------
(* String helpers: String.prototype.includes / startsWith / endsWith,      *)
(* toLowerCase, trim, split(' ').length and the regex \b word boundary.    *)

UpperChars == <<"A","B","C","D","E","F","G","H","I","J","K","L","M",
                "N","O","P","Q","R","S","T","U","V","W","X","Y","Z">>

LowerChars == <<"a","b","c","d","e","f","g","h","i","j","k","l","m",
                "n","o","p","q","r","s","t","u","v","w","x","y","z">>

DigitChars == {"0","1","2","3","4","5","6","7","8","9"}

WhiteChars == {" ", "\t", "\n", "\r"}

CharAt(s, i) == SubSeq(s, i, i)

RECURSIVE toLowerCase(_)
toLowerCase(s) ==
    LET
        LowerChar(c) ==
            IF \E k \in 1..26 : UpperChars[k] = c
            THEN LowerChars[CHOOSE k \in 1..26 : UpperChars[k] = c]
            ELSE c
    IN
    IF Len(s) = 0 THEN "" ELSE LowerChar(CharAt(s, 1)) \o toLowerCase(Tail(s))

IsWordChar(c) ==
    \/ c \in DigitChars
    \/ c = "_"
    \/ \E k \in 1..26 : UpperChars[k] = c \/ LowerChars[k] = c

\* s.substring(i-1, i-1+Len(p)) === p
MatchAt(s, p, i) ==
    /\ i >= 1
    /\ i + Len(p) - 1 <= Len(s)
    /\ SubSeq(s, i, i + Len(p) - 1) = p

includes(s, p) == \E i \in 1..(Len(s) + 1) : MatchAt(s, p, i)

startsWith(s, p) == MatchAt(s, p, 1)

\* regex \b between the characters i-1 and i of s (1-based, i in 1..Len+1)
WordBoundary(s, i) ==
    LET before == i > 1 /\ IsWordChar(CharAt(s, i - 1))
        after  == i <= Len(s) /\ IsWordChar(CharAt(s, i))
    IN  before # after

\* s.match(/\b(p1|p2|...)\b/) for the alternatives ps
MatchWords(s, ps) ==
    \E p \in ps : \E i \in 1..(Len(s) + 1) :
        /\ MatchAt(s, p, i)
        /\ WordBoundary(s, i)
        /\ WordBoundary(s, i + Len(p))

\* s.match(/^(p1|p2|...)$/)
MatchWhole(s, ps) == s \in ps

\* s.match(/(p1|p2|...)/)
MatchAny(s, ps) == \E p \in ps : includes(s, p)

\* s.match(/^(p1|p2|...)/)
MatchStart(s, ps) == \E p \in ps : startsWith(s, p)

\* s.match(/^(p1|p2|...)\b/)
MatchStartWord(s, ps) ==
    \E p \in ps : startsWith(s, p) /\ WordBoundary(s, Len(p) + 1)

RECURSIVE trimStart(_)
trimStart(s) ==
    IF Len(s) > 0 /\ CharAt(s, 1) \in WhiteChars THEN trimStart(Tail(s)) ELSE s

RECURSIVE trimEnd(_)
trimEnd(s) ==
    IF Len(s) > 0 /\ CharAt(s, Len(s)) \in WhiteChars
    THEN trimEnd(SubSeq(s, 1, Len(s) - 1))
    ELSE s

trim(s) == trimEnd(trimStart(s))

\* s.split(' ').length: one more than the number of space characters
SplitSpaceLength(s) == Cardinality({i \in 1..Len(s) : CharAt(s, i) = " "}) + 1

EncodeChar(c) ==
    LET
        \* encodeURIComponent on the characters that occur in chat text
        UnreservedMarks == {"-", "_", ".", "!", "~", "*", "'", "(", ")"}
    IN
    IF IsWordChar(c) \/ c \in UnreservedMarks THEN c
    ELSE IF c = " " THEN "%20"
    ELSE IF c = "?" THEN "%3F"
    ELSE IF c = "&" THEN "%26"
    ELSE IF c = "/" THEN "%2F"
    ELSE IF c = "+" THEN "%2B"
    ELSE IF c = "," THEN "%2C"
    ELSE IF c = ":" THEN "%3A"
    ELSE IF c = "=" THEN "%3D"
    ELSE IF c = "%" THEN "%25"
    ELSE IF c = "\t" THEN "%09"
    ELSE "%EF%BF%BD"

RECURSIVE encodeURIComponent(_)
encodeURIComponent(s) ==
    IF Len(s) = 0 THEN ""
    ELSE EncodeChar(CharAt(s, 1)) \o encodeURIComponent(Tail(s))

----------------------------------------------------------------------------
(* JavaScript values of the parsed model reply.                            *)

Undefined == [j |-> "undefined"]

JNull == [j |-> "null"]

JStr(s) == [j |-> "str", s |-> s]

JNum(n) == [j |-> "num", n |-> n]

JArr(a) == [j |-> "arr", a |-> a]

\* an object: f is a function from its own property names to values
JObj(f) == [j |-> "obj", f |-> f]

\* obj.key (undefined when the property is missing)
Get(obj, key) == IF key \in DOMAIN obj.f THEN obj.f[key] ELSE Undefined

\* JavaScript truthiness, as used by `a || b`
Truthy(v) ==
    CASE v.j = "undefined" -> FALSE
      [] v.j = "null"      -> FALSE
      [] v.j = "str"       -> v.s # ""
      [] v.j = "num"       -> v.n # 0
      [] OTHER             -> TRUE

\* String(value), as `+` and template strings apply it
ToStr(v) ==
    CASE v.j = "str" -> v.s
      [] v.j = "num" -> ToString(v.n)
      [] v.j = "null" -> "null"
      [] v.j = "undefined" -> "undefined"
      [] OTHER -> "[object Object]"

\* a command { type, params } as the code itself builds it
Cmd(type, query) ==
    JObj([type |-> JStr(type), params |-> JObj([query |-> JStr(query)])])

----------------------------------------------------------------------------
(* GeminiAI.fallbackParse: the rule-based reply used without a model.      *)
(* u is the Math.random() draw, in twelfths (12 = lcm of the array sizes). *)

RandomDraws == {0, 7}

\* arr[Math.floor(Math.random() * arr.length)]
pick(arr, u) == arr[((u * Len(arr)) \div 12) + 1]

AIResponse(response, commands) == [response |-> response, commands |-> commands]

\* /^hii+$/
IsHii(s) == Len(s) >= 3 /\ startsWith(s, "hi") /\ \A i \in 3..Len(s) : CharAt(s, i) = "i"

jokes == <<
    "Why don't scientists trust atoms? Because they make up everything!",
    "I told my wifi we need to talk. It's been disconnected ever since ",
    "Why did the scarecrow win an award? He was outstanding in his field! ",
    "I'm reading a book about anti-gravity. It's impossible to put down! ",
    "What do you call a fake noodle? An impasta! ",
    "Why don't eggs tell jokes? They'd crack each other up! " >>

\* the branch of fallbackParse that answers the message, in code order
fallbackBranch(message) ==
    LET lowerMessage == trim(toLowerCase(message))
    IN  IF MatchWhole(lowerMessage, {"hi","hello","hey","yo","sup","hola","wassup","hiii"})
           \/ IsHii(lowerMessage)
        THEN "greeting"
        ELSE IF MatchAny(lowerMessage, {"how are you","how r u","how're you","whats up",
                                        "kya hal","kaise ho","how's it going"})
        THEN "how_are_you"
        ELSE IF MatchAny(lowerMessage, {"your name","who are you","what are you",
                                        "introduce yourself"})
        THEN "name"
        ELSE IF MatchAny(lowerMessage, {"thank","thanks","thx","thnx","ty","shukriya",
                                        "dhanyawad"})
        THEN "thanks"
        ELSE IF MatchWhole(lowerMessage, {"bye","goodbye","see you","cya","later","tata",
                                          "alvida","good night","gn"})
        THEN "bye"
        ELSE IF MatchAny(lowerMessage, {"good morning","good afternoon","good evening",
                                        "good night","gm","ge"})
        THEN "good_time"
        ELSE IF MatchAny(lowerMessage, {"what can you do","what do you do","your features",
                                        "kya kar sakte","help me"})
        THEN "features"
        ELSE IF MatchAny(lowerMessage, {"you're awesome","you're great","good bot","nice",
                                        "amazing","love you","best bot"})
        THEN "compliment"
        ELSE IF MatchAny(lowerMessage, {"i'm bored","im bored","bored","bore ho gaya",
                                        "kuch karo"})
        THEN "bored"
        ELSE IF lowerMessage = "help" \/ lowerMessage = "/help"
        THEN "help"
        ELSE IF includes(lowerMessage, "joke")
                \/ (includes(lowerMessage, "funny") /\ ~includes(lowerMessage, "video"))
        THEN "joke"
        ELSE IF includes(lowerMessage, "video") \/ includes(lowerMessage, "watch")
                \/ includes(lowerMessage, "youtube")
        THEN "video"
        ELSE IF includes(lowerMessage, "buy") \/ includes(lowerMessage, "price")
                \/ includes(lowerMessage, "amazon") \/ includes(lowerMessage, "shop")
        THEN "shopping"
        ELSE IF MatchStart(lowerMessage, {"who","what","where","when","why","how","tell me",
                                          "search","find","google"})
        THEN "search"
        ELSE "default"

fallbackParse(message, u) ==
    LET
        greetings == <<
            "Yo!  What's poppin'? Ask me anything!",
            "Heyy!  Ready to help - hit me with your questions!",
            "Sup!  Your personal buddy is here!",
            "Hey there!  What's on your mind?" >>
        howAreYouResponses == <<
            "I'm doing great!  Thanks for asking! What can I help you with?",
            "All good here!  Ready to chat or help with anything!",
            "Living my best bot life!  What's up with you?",
            "Fantastic!  So... what brings you here today?" >>
        thanksResponses == <<
            "You're welcome!  Happy to help!",
            "Anytime buddy!  That's what I'm here for!",
            "No problem at all!  Need anything else?",
            "My pleasure!  Hit me up anytime!" >>
        byeResponses == <<
            "Catch you later! ",
            "Bye bye! Take care! ",
            "See ya! Don't be a stranger! ",
            "Later! Hit me up anytime you need help! " >>
        complimentResponses == <<
            "Aww you're making me blush!  You're pretty awesome too!",
            "That means so much!  You just made my day!",
            "Haha thanks!  You're the best human I've chatted with today!",
            "Right back at ya!  We make a great team!" >>
        boredResponses == <<
            "Bored? Let me fix that! \n\nTry: \"tell me a joke\" or \"funny videos\" or ask me something random!",
            "Time to spice things up!  Want a joke? Random fact? Or should I find you some entertainment?",
            "Boredom? Not on my watch!  Ask me anything wild - I dare you!" >>
        funIntros == <<
            "Ooh interesting question! ",
            "Let me hook you up with some info! ",
            "Good one! Here's what I found:",
            "You got it! Check this out:" >>
        chatResponses == <<
            "Haha interesting!  Tell me more or ask me something!",
            "I hear you!  Want me to look that up or just chatting?",
            "Cool cool!  Need help with anything specific?",
            "Got it!  Anything else on your mind?" >>
    IN
    LET lowerMessage == trim(toLowerCase(message))
        query  == trim(message)
        branch == fallbackBranch(message)
        text ==
          CASE branch = "greeting"    -> pick(greetings, u)
            [] branch = "how_are_you" -> pick(howAreYouResponses, u)
            [] branch = "name" ->
                 "I'm your friendly WhatsApp buddy!  You can call me Bot. I'm here to chat, answer questions, find videos, and help with whatever you need! Just ask away "
            [] branch = "thanks"      -> pick(thanksResponses, u)
            [] branch = "bye"         -> pick(byeResponses, u)
            [] branch = "good_time" ->
                 IF includes(lowerMessage, "morning")
                 THEN "Good morning!  Hope you have an awesome day! What can I help with?"
                 ELSE IF includes(lowerMessage, "night")
                 THEN "Good night!  Sweet dreams! Talk tomorrow? "
                 ELSE "Hey!  Hope you're having a great day! What's up?"
            [] branch = "features" ->
                 "I can do lots! \n\n Chat with you like a friend \n Answer questions about anything \n Find YouTube videos \n Search for products & prices \n Tell jokes \n And just vibe with you! \n\nTry asking me something!"
            [] branch = "compliment"  -> pick(complimentResponses, u)
            [] branch = "bored"       -> pick(boredResponses, u)
            [] branch = "help" ->
                 "Ayy I got you! \n\nJust ask stuff like:\n \"who is elon musk\" \n \"funny cat videos\" \n \"iphone 15 price\" \n \"tell me a joke\" \n\nOr just chat with me! I'm friendly "
            [] branch = "joke"        -> pick(jokes, u)
            [] branch = "video" ->
                 "Ooh nice choice!  Here's your video content:\n\n "
                 \o "https://www.youtube.com/results?search_query=" \o encodeURIComponent(query)
                 \o "\n\nEnjoy the show! "
            [] branch = "shopping" ->
                 "Shopping time! \n\nHere's what I found:\n "
                 \o "https://www.amazon.in/s?k=" \o encodeURIComponent(query)
                 \o "\n\nHappy shopping! Don't go too crazy "
            [] branch = "search" ->
                 pick(funIntros, u) \o "\n\n " \o query \o "\n "
                 \o "https://www.google.com/search?q=" \o encodeURIComponent(query)
            [] OTHER                  -> pick(chatResponses, u)
    IN  AIResponse(JStr(text), JArr(<< >>))

----------------------------------------------------------------------------
(* Raw model text.  It is a sequence of pieces: prose, a code fence (three *)
(* backticks, with or without the word json after the opening one),        *)
(* whitespace, or a maximal piece of JSON text together with the value     *)
(* JSON.parse gives for it.                                                *)

Prose(s) == [k |-> "prose", s |-> s]

\* (the three backticks are rendered as ''')
Fence(lang) == [k |-> "fence", s |-> "'''" \o lang]

Space(s) == [k |-> "ws", s |-> s]

Json(src, v) == [k |-> "json", s |-> src, v |-> v]

\* the text of a sequence of pieces, result.response.text()
RECURSIVE Render(_)
Render(pieces) ==
    IF pieces = << >> THEN "" ELSE Head(pieces).s \o Render(Tail(pieces))

RECURSIVE TrimPiecesStart(_)
TrimPiecesStart(pieces) ==
    IF pieces # << >> /\ Head(pieces).k = "ws"
    THEN TrimPiecesStart(Tail(pieces))
    ELSE pieces

RECURSIVE TrimPiecesEnd(_)
TrimPiecesEnd(pieces) ==
    IF pieces # << >> /\ pieces[Len(pieces)].k = "ws"
    THEN TrimPiecesEnd(SubSeq(pieces, 1, Len(pieces) - 1))
    ELSE pieces

TrimPieces(pieces) == TrimPiecesEnd(TrimPiecesStart(pieces))

FenceIndexes(pieces) == {i \in 1..Len(pieces) : pieces[i].k = "fence"}

Min(S) == CHOOSE x \in S : \A y \in S : x <= y

\* responseText.match(/'''(?:json)?\s*([\s\S]*?)'''/): the pieces between
\* the first fence and the next one, trimmed; the whole text without a match
jsonStr(pieces) ==
    LET fs == FenceIndexes(pieces)
    IN  IF Cardinality(fs) >= 2
        THEN LET i == Min(fs)
                 j == Min(fs \ {i})
             IN  TrimPieces(SubSeq(pieces, i + 1, j - 1))
        ELSE pieces

\* JSON.parse: JSON text with optional whitespace around it, else SyntaxError
JSONParse(pieces) ==
    LET t == TrimPieces(pieces)
    IN  IF Len(t) = 1 /\ t[1].k = "json"
        THEN [ok |-> TRUE, v |-> t[1].v]
        ELSE [ok |-> FALSE]

\* GeminiAI.processMessage, lines 111-131: the reply built from the raw text
parseModelText(pieces) ==
    LET responseText == Render(pieces)
        res          == JSONParse(jsonStr(pieces))
        raw          == AIResponse(JStr(responseText), JArr(<< >>))
    IN  IF ~res.ok THEN raw
        \* property access on null throws inside the inner try
        ELSE IF res.v.j = "null" THEN raw
        ELSE IF res.v.j # "obj" THEN raw
        ELSE LET r == Get(res.v, "response")
                 c == Get(res.v, "commands")
             IN  AIResponse(IF Truthy(r) THEN r ELSE JStr(responseText),
                            IF Truthy(c) THEN c ELSE JArr(<< >>))

\* GeminiAI.processMessage, catch block (lines 133-158)
modelFailed(message, errorMsg, u) ==
    LET
        RateLimitResponse == " My brain is a bit overloaded (Rate Limit). Give me a minute!"
        HiccupResponse == " My AI brain is having a temporary hiccup! \n\nI'll search the web for you instead:"
    IN
    IF includes(errorMsg, "429")
    THEN AIResponse(JStr(RateLimitResponse), JArr(<< >>))
    ELSE IF SplitSpaceLength(message) > 4
    THEN AIResponse(JStr(HiccupResponse), JArr(<< Cmd("web_search", message) >>))
    ELSE fallbackParse(message, u)

----------------------------------------------------------------------------
(* CommandParser.parseCommands and sanitizeParams.                         *)

validCommands == {
    "file_search", "file_read", "file_download", "dir_list",
    "browser_open", "browser_search", "browser_screenshot",
    "system_run", "system_open_app", "system_info", "screenshot",
    "web_search", "youtube_search", "amazon_search",
    "add_note", "get_notes", "add_todo", "get_todos", "complete_todo",
    "add_reminder", "get_reminders",
    "help", "linkedin_apply", "schedule_task" }

RECURSIVE stripDangerous(_)
stripDangerous(s) ==
    LET
        \* value.replace(/[;&|`$]/g, '')
        DangerousChars == {";", "&", "|", "$"}
    IN
    IF Len(s) = 0 THEN ""
    ELSE (IF CharAt(s, 1) \in DangerousChars THEN "" ELSE CharAt(s, 1))
         \o stripDangerous(Tail(s))

\* Object.entries(params) of an object; null and undefined throw, a number
\* or a boolean has no entries
sanitizeParams(params) ==
    IF params.j \in {"undefined", "null"}
    THEN [ok |-> FALSE, error |-> "Cannot convert undefined or null to object"]
    ELSE IF params.j # "obj"
    THEN [ok |-> TRUE, v |-> JObj([k \in {} |-> Undefined])]
    ELSE LET keys == {k \in DOMAIN params.f : params.f[k].j \notin {"undefined", "null"}}
         IN  [ok |-> TRUE,
              v  |-> JObj([k \in keys |->
                            IF params.f[k].j = "str"
                            THEN JStr(stripDangerous(params.f[k].s))
                            ELSE params.f[k]])]

\* the loop body of parseCommands for one entry: the entries to push, or a throw
parseOne(cmd) ==
    LET
        ParsedCommand(type, params) == [type |-> type, params |-> params]
    IN
    IF cmd.j \in {"undefined", "null"}
    THEN [ok |-> FALSE,
          error |-> "Cannot read properties of " \o cmd.j \o " (reading 'type')"]
    ELSE IF cmd.j # "obj"
    THEN [ok |-> TRUE, v |-> << >>]
    ELSE LET type == Get(cmd, "type")
         IN  IF type.j = "str" /\ type.s \in validCommands
             THEN LET sp == sanitizeParams(Get(cmd, "params"))
                  IN  IF sp.ok
                      THEN [ok |-> TRUE, v |-> << ParsedCommand(type.s, sp.v) >>]
                      ELSE [ok |-> FALSE, error |-> sp.error]
             ELSE [ok |-> TRUE, v |-> << >>]

RECURSIVE parseList(_)
parseList(entries) ==
    IF entries = << >> THEN [ok |-> TRUE, v |-> << >>]
    ELSE LET first == parseOne(Head(entries))
         IN  IF ~first.ok THEN first
             ELSE LET rest == parseList(Tail(entries))
                  IN  IF ~rest.ok THEN rest
                      ELSE [ok |-> TRUE, v |-> first.v \o rest.v]

\* for (const cmd of commands): an array is iterated, the characters of a
\* string have no type, anything else is not iterable
parseCommands(commands) ==
    CASE commands.j = "arr" -> parseList(commands.a)
      [] commands.j = "str" -> [ok |-> TRUE, v |-> << >>]
      [] OTHER -> [ok |-> FALSE, error |-> "commands is not iterable"]

----------------------------------------------------------------------------
(* TaskExecutor.execute: the results a command can have.  The capability   *)
(* implementations are external; a capability that touches the machine     *)
(* either answers with an output or reports an error.                      *)

\* `${command.params.key}` inside a template string
paramStr(command, key) ==
    LET v == Get(command.params, key)
    IN  CASE v.j = "str" -> v.s
          [] v.j = "num" -> ToString(v.n)
          [] v.j = "null" -> "null"
          [] v.j = "undefined" -> "undefined"
          [] OTHER -> "[object Object]"

execute(command) ==
    LET
        Succeeded(output) == [success |-> TRUE, output |-> output]
        Failed(error) == [success |-> FALSE, error |-> error]
    IN
    LET
        searchKinds == {"web_search", "smart_search", "youtube_search", "amazon_search",
                        "sports_search", "news_search", "person_search", "music_search",
                        "movie_search", "location_search", "game_search", "image_search"}
        machineKinds == {"file_search", "file_read", "file_download", "dir_list",
                         "browser_open", "browser_search", "browser_screenshot",
                         "system_run", "system_open_app", "system_info", "screenshot",
                         "add_note", "get_notes", "add_todo", "get_todos", "complete_todo",
                         "add_reminder", "get_reminders"}
    IN
    CASE command.type = "web_search" ->
           { Succeeded(" *" \o paramStr(command, "query") \o "*\n\n Search: "
                       \o "https://www.google.com/search?q="
                       \o encodeURIComponent(paramStr(command, "query"))) }
      [] command.type = "youtube_search" ->
           { Succeeded(" *YouTube: " \o paramStr(command, "query") \o "*\n\n Watch: "
                       \o "https://www.youtube.com/results?search_query="
                       \o encodeURIComponent(paramStr(command, "query"))) }
      [] command.type = "amazon_search" ->
           { Succeeded(" *Amazon: " \o paramStr(command, "query") \o "*\n\n Shop: "
                       \o "https://www.amazon.in/s?k="
                       \o encodeURIComponent(paramStr(command, "query"))) }
      [] command.type \in searchKinds \ {"web_search", "youtube_search", "amazon_search"} ->
           { Succeeded("*" \o paramStr(command, "query") \o "*") }
      [] command.type = "help" ->
           { Succeeded("Use /help for available commands") }
      [] command.type \in machineKinds ->
           { Succeeded(command.type \o " output"),
             Failed("Failed: " \o command.type) }
      [] OTHER ->
           { Failed("Unknown command type: " \o command.type) }

----------------------------------------------------------------------------
(* LocalNLP, the rule-based classifier.  The Math.random picks, the clock  *)
(* and the JavaScript engine that evaluates the math expression are not    *)
(* part of it: process gives the SET of results a message can have.        *)

\* [\d\s\+\-\*\/\(\)\.\^%]
MathChars == DigitChars \cup WhiteChars \cup {"+", "-", "*", "/", "(", ")", ".", "^", "%"}

\* the index after the run of \s that starts at i
RECURSIVE SkipSpace(_, _)
SkipSpace(s, i) ==
    IF i <= Len(s) /\ CharAt(s, i) \in WhiteChars THEN SkipSpace(s, i + 1) ELSE i

\* the index after the run of \d that starts at i
RECURSIVE SkipDigits(_, _)
SkipDigits(s, i) ==
    IF i <= Len(s) /\ CharAt(s, i) \in DigitChars THEN SkipDigits(s, i + 1) ELSE i

MathPrefixes == {"what", "calculate", "solve", "compute", "eval"}

\* /^[\d\s\+\-\*\/\(\)\.\^%]+$/
IsPlainMath(input) ==
    Len(input) > 0 /\ \A i \in 1..Len(input) : CharAt(input, i) \in MathChars

\* /^(what|calculate|solve|compute|eval)?\s*(is)?\s*[\d\s\+\-\*\/\(\)\.\^%]+/i
\* (not anchored at the end; every way the optional parts can match counts)
HasMathStart(input) ==
    LET l == toLowerCase(input)
        afterWord == {1} \cup {1 + Len(p) : p \in {q \in MathPrefixes : startsWith(l, q)}}
    IN  \E a \in afterWord : \E b \in a..SkipSpace(l, a) :
          \E c \in {b} \cup (IF MatchAt(l, "is", b) THEN {b + 2} ELSE {}) :
            \E d \in c..SkipSpace(l, c) :
              d <= Len(l) /\ CharAt(l, d) \in MathChars

\* input.replace(/^(what|calculate|solve|compute|eval)?\s*(is)?\s*/i, '')
stripMathPrefix(input) ==
    LET l  == toLowerCase(input)
        ws == {p \in MathPrefixes : startsWith(l, p)}
        a  == IF ws = {} THEN 1 ELSE 1 + Len(CHOOSE p \in ws : TRUE)
        b  == SkipSpace(l, a)
        c  == IF MatchAt(l, "is", b) THEN b + 2 ELSE b
        d  == SkipSpace(l, c)
    IN  SubSeq(input, d, Len(input))

\* expr.replace(/\^/g, '**')
RECURSIVE replaceCaret(_)
replaceCaret(s) ==
    IF Len(s) = 0 THEN ""
    ELSE (IF CharAt(s, 1) = "^" THEN "**" ELSE CharAt(s, 1)) \o replaceCaret(Tail(s))

\* expr.replace(/(\d+)\s*\*\*\s*(\d+)/g, 'Math.pow($1,$2)'), from index i
RECURSIVE replacePow(_, _)
replacePow(s, i) ==
    IF i > Len(s) THEN ""
    ELSE LET a == SkipDigits(s, i)
             b == SkipSpace(s, a)
             c == SkipSpace(s, b + 2)
             d == SkipDigits(s, c)
         IN  IF a > i /\ MatchAt(s, "**", b) /\ d > c
             THEN "Math.pow(" \o SubSeq(s, i, a - 1) \o "," \o SubSeq(s, c, d - 1) \o ")"
                  \o replacePow(s, d)
             ELSE CharAt(s, i) \o replacePow(s, i + 1)

\* expr.replace(/(\d+)\s*%\s*of\s*(\d+)/gi, '($1/100)*$2'), from index i
RECURSIVE replacePercentOf(_, _)
replacePercentOf(s, i) ==
    IF i > Len(s) THEN ""
    ELSE LET a == SkipDigits(s, i)
             b == SkipSpace(s, a)
             c == SkipSpace(s, b + 1)
             d == SkipSpace(s, c + 2)
             e == SkipDigits(s, d)
         IN  IF a > i /\ MatchAt(s, "%", b) /\ MatchAt(toLowerCase(s), "of", c) /\ e > d
             THEN "(" \o SubSeq(s, i, a - 1) \o "/100)*" \o SubSeq(s, d, e - 1)
                  \o replacePercentOf(s, e)
             ELSE CharAt(s, i) \o replacePercentOf(s, i + 1)

\* expr.replace(/(\d+)%/g, '($1/100)'), from index i
RECURSIVE replacePercent(_, _)
replacePercent(s, i) ==
    IF i > Len(s) THEN ""
    ELSE LET a == SkipDigits(s, i)
         IN  IF a > i /\ MatchAt(s, "%", a)
             THEN "(" \o SubSeq(s, i, a - 1) \o "/100)" \o replacePercent(s, a + 1)
             ELSE CharAt(s, i) \o replacePercent(s, i + 1)

\* evaluateMath, lines 89-98: the text handed to new Function
mathExpr(source) ==
    replacePercent(
        replacePercentOf(
            replacePow(replaceCaret(trim(stripMathPrefix(source))), 1), 1), 1)

\* parseWordMath: the tables, in the order Object.entries gives them
NumberWords == <<
    <<"zero", "0">>, <<"one", "1">>, <<"two", "2">>, <<"three", "3">>, <<"four", "4">>,
    <<"five", "5">>, <<"six", "6">>, <<"seven", "7">>, <<"eight", "8">>, <<"nine", "9">>,
    <<"ten", "10">>, <<"eleven", "11">>, <<"twelve", "12">>, <<"thirteen", "13">>,
    <<"fourteen", "14">>, <<"fifteen", "15">>, <<"sixteen", "16">>, <<"seventeen", "17">>,
    <<"eighteen", "18">>, <<"nineteen", "19">>, <<"twenty", "20">>, <<"thirty", "30">>,
    <<"forty", "40">>, <<"fifty", "50">>, <<"sixty", "60">>, <<"seventy", "70">>,
    <<"eighty", "80">>, <<"ninety", "90">>, <<"hundred", "100">>, <<"thousand", "1000">> >>

OperatorWords == <<
    <<"plus", " + ">>, <<"add", " + ">>, <<"added", " + ">>, <<"and", " + ">>,
    <<"minus", " - ">>, <<"subtract", " - ">>, <<"less", " - ">>,
    <<"times", " * ">>, <<"multiply", " * ">>, <<"multiplied", " * ">>, <<"into", " * ">>,
    <<"divided", " / ">>, <<"divide", " / ">>, <<"over", " / ">>,
    <<"power", " ** ">>, <<"raised", " ** ">>, <<"to the", " ** ">>,
    <<"square", " **2 ">>, <<"squared", " **2 ">>, <<"cube", " **3 ">>, <<"cubed", " **3 ">> >>

\* s.replace(new RegExp('\\bword\\b', 'g'), repl), from index i
RECURSIVE replaceWord(_, _, _, _)
replaceWord(s, word, repl, i) ==
    IF i > Len(s) THEN ""
    ELSE IF MatchAt(s, word, i) /\ WordBoundary(s, i) /\ WordBoundary(s, i + Len(word))
    THEN repl \o replaceWord(s, word, repl, i + Len(word))
    ELSE CharAt(s, i) \o replaceWord(s, word, repl, i + 1)

\* the replacements of a table applied one after the other, from entry k
RECURSIVE replaceWords(_, _, _)
replaceWords(s, table, k) ==
    IF k > Len(table) THEN s
    ELSE CHOOSE r \in {replaceWords(t, table, k + 1) :
                          t \in {replaceWord(s, table[k][1], table[k][2], 1)}} : TRUE

\* expr.replace(/what is|calculate|equals|equal|the|of/gi, ''), from index i
RECURSIVE removeCleanupWords(_, _)
removeCleanupWords(s, i) ==
    LET
        CleanupWords == <<"what is", "calculate", "equals", "equal", "the", "of">>
    IN
    IF i > Len(s) THEN ""
    ELSE LET ks == {k \in 1..Len(CleanupWords) : MatchAt(s, CleanupWords[k], i)}
         IN  IF ks # {}
             THEN removeCleanupWords(s, i + Len(CleanupWords[Min(ks)]))
             ELSE CharAt(s, i) \o removeCleanupWords(s, i + 1)

\* expr.replace(/[^\d\+\-\*\/\(\)\.\s\*]/g, '')
RECURSIVE keepMathChars(_)
keepMathChars(s) ==
    IF Len(s) = 0 THEN ""
    ELSE (IF CharAt(s, 1) \in MathChars \ {"^", "%"} THEN CharAt(s, 1) ELSE "")
         \o keepMathChars(Tail(s))

\* expr.replace(/\s+/g, ' '), from index i
RECURSIVE collapseSpace(_, _)
collapseSpace(s, i) ==
    IF i > Len(s) THEN ""
    ELSE IF CharAt(s, i) \in WhiteChars THEN " " \o collapseSpace(s, SkipSpace(s, i))
    ELSE CharAt(s, i) \o collapseSpace(s, i + 1)

\* LocalNLP.parseWordMath; "" stands for null (the caller tests truthiness)
parseWordMath(input) ==
    LET lower == toLowerCase(input)
        hasNumbers ==
            \/ \E k \in 1..Len(NumberWords) : includes(lower, NumberWords[k][1])
            \/ \E i \in 1..Len(lower) : CharAt(lower, i) \in DigitChars
        hasOperators == \E k \in 1..Len(OperatorWords) : includes(lower, OperatorWords[k][1])
        numbers   == replaceWords(lower, NumberWords, 1)
        operators == CHOOSE r \in {replaceWords(t, OperatorWords, 1) : t \in {numbers}} : TRUE
    IN  IF ~hasNumbers \/ ~hasOperators THEN ""
        ELSE trim(collapseSpace(keepMathChars(removeCleanupWords(operators, 1)), 1))

\* evaluateMath, lines 77-88: the text that goes on to evaluation; "" when
\* the method returns null before it
mathSource(input) ==
    IF IsPlainMath(input) \/ HasMathStart(input) THEN input ELSE parseWordMath(input)

\* The JavaScript engine.  A value is a fraction n/d, or Foreign for what
\* the arithmetic below does not compute.
Foreign == [k |-> "foreign"]

Abs(x) == IF x < 0 THEN -x ELSE x

RECURSIVE GCD(_, _)
GCD(a, b) == IF b = 0 THEN a ELSE GCD(b, a % b)

Rat(n, d) ==
    LET g == GCD(Abs(n), d) IN [k |-> "val", n |-> n \div g, d |-> d \div g]

\* x op y on fractions that stay small; division by zero and large values
\* are left to the engine
RatOp(op, x, y) ==
    IF x = Foreign \/ y = Foreign THEN Foreign
    ELSE IF op = "/" /\ y.n = 0 THEN Foreign
    ELSE LET r == CASE op = "+" -> Rat(x.n * y.d + y.n * x.d, x.d * y.d)
                    [] op = "-" -> Rat(x.n * y.d - y.n * x.d, x.d * y.d)
                    [] op = "*" -> Rat(x.n * y.n, x.d * y.d)
                    [] op = "/" -> Rat((IF y.n < 0 THEN -1 ELSE 1) * x.n * y.d,
                                       x.d * Abs(y.n))
         IN  IF Abs(r.n) <= 10000 /\ r.d <= 10000 THEN r ELSE Foreign

RECURSIVE DigitsValue(_)
DigitsValue(s) ==
    IF Len(s) = 0 THEN 0
    ELSE 10 * DigitsValue(SubSeq(s, 1, Len(s) - 1))
         + (CHOOSE n \in 0..9 : ToString(n) = CharAt(s, Len(s)))

\* a to the power b, not computed further once it is large
RECURSIVE Power(_, _)
Power(a, b) ==
    IF b = 0 THEN 1
    ELSE LET p == Power(a, b - 1) IN IF p > 10000 THEN p ELSE a * p

BadTok == [t |-> "bad"]

\* the tokens of an arithmetic text from index i: decimal literals, + - * /,
\* parentheses and Math.pow(a,b); BadTok for anything else
RECURSIVE Tokens(_, _)
Tokens(s, i) ==
    LET
        Tok(t) == [t |-> t]
        NumTok(v) == [t |-> "num", v |-> v]
    IN
    IF i > Len(s) THEN << >>
    ELSE LET ch == CharAt(s, i)
         IN  IF ch = " " THEN Tokens(s, i + 1)
             ELSE IF ch \in DigitChars
             THEN LET a == SkipDigits(s, i)
                      b == IF MatchAt(s, ".", a) THEN SkipDigits(s, a + 1) ELSE a
                      whole == SubSeq(s, i, a - 1)
                      frac  == SubSeq(s, a + 1, b - 1)
                      plain == /\ Len(whole \o frac) <= 4
                               /\ (a - i = 1 \/ CharAt(s, i) # "0")
                               /\ b # a + 1
                               /\ ~(b <= Len(s) /\ (IsWordChar(CharAt(s, b))
                                                    \/ CharAt(s, b) \in {".", "$"}))
                  IN  IF plain
                      THEN << NumTok(Rat(DigitsValue(whole \o frac), Power(10, Len(frac)))) >>
                           \o Tokens(s, b)
                      ELSE << BadTok >>
             ELSE IF MatchAt(s, "Math.pow(", i)
             THEN LET a == SkipDigits(s, i + 9)
                      b == SkipDigits(s, a + 1)
                      plain == /\ a > i + 9 /\ MatchAt(s, ",", a) /\ b > a + 1
                               /\ MatchAt(s, ")", b)
                               /\ a - (i + 9) <= 2 /\ b - (a + 1) <= 2
                               /\ (a - (i + 9) = 1 \/ CharAt(s, i + 9) # "0")
                               /\ (i = 1 \/ ~(IsWordChar(CharAt(s, i - 1))
                                              \/ CharAt(s, i - 1) \in {".", "$"}))
                  IN  IF plain
                      THEN LET v == Power(DigitsValue(SubSeq(s, i + 9, a - 1)),
                                          DigitsValue(SubSeq(s, a + 1, b - 1)))
                           IN  IF v <= 10000
                               THEN << NumTok(Rat(v, 1)) >> \o Tokens(s, b + 1)
                               ELSE << BadTok >>
                      ELSE << BadTok >>
             ELSE IF ch \in {"+", "-"} /\ ~MatchAt(s, ch, i + 1)
             THEN << Tok(ch) >> \o Tokens(s, i + 1)
             ELSE IF ch = "*" /\ ~MatchAt(s, "*", i + 1)
             THEN << Tok(ch) >> \o Tokens(s, i + 1)
             ELSE IF ch = "/" /\ ~MatchAt(s, "/", i + 1) /\ ~MatchAt(s, "*", i + 1)
             THEN << Tok(ch) >> \o Tokens(s, i + 1)
             ELSE IF ch \in {"(", ")"}
             THEN << Tok(ch) >> \o Tokens(s, i + 1)
             ELSE << BadTok >>

NoParse == [ok |-> FALSE]

Parsed(v, p) == [ok |-> TRUE, v |-> v, p |-> p]

RECURSIVE parseSum(_, _)
RECURSIVE parseSumRest(_, _, _)
RECURSIVE parseProduct(_, _)
RECURSIVE parseProductRest(_, _, _)
RECURSIVE parseUnary(_, _)

\* a literal, or a parenthesised sum, at token p
parsePrimary(ts, p) ==
    IF p > Len(ts) THEN NoParse
    ELSE IF ts[p].t = "num" THEN Parsed(ts[p].v, p + 1)
    ELSE IF ts[p].t = "("
    THEN LET Closed(r) ==
                 IF r.ok /\ r.p <= Len(ts) /\ ts[r.p].t = ")" THEN Parsed(r.v, r.p + 1)
                 ELSE NoParse
         IN  Closed(parseSum(ts, p + 1))
    ELSE NoParse

parseUnary(ts, p) ==
    IF p > Len(ts) THEN NoParse
    ELSE IF ts[p].t = "-"
    THEN LET Negated(r) ==
                 IF r.ok THEN Parsed(RatOp("-", Rat(0, 1), r.v), r.p) ELSE NoParse
         IN  Negated(parseUnary(ts, p + 1))
    ELSE IF ts[p].t = "+" THEN parseUnary(ts, p + 1)
    ELSE parsePrimary(ts, p)

parseProductRest(ts, acc, p) ==
    IF p <= Len(ts) /\ ts[p].t \in {"*", "/"}
    THEN LET Applied(r) ==
                 IF r.ok THEN parseProductRest(ts, RatOp(ts[p].t, acc, r.v), r.p) ELSE NoParse
         IN  Applied(parseUnary(ts, p + 1))
    ELSE Parsed(acc, p)

parseProduct(ts, p) ==
    LET Rest(r) == IF r.ok THEN parseProductRest(ts, r.v, r.p) ELSE NoParse
    IN  Rest(parseUnary(ts, p))

parseSumRest(ts, acc, p) ==
    IF p <= Len(ts) /\ ts[p].t \in {"+", "-"}
    THEN LET Applied(r) ==
                 IF r.ok THEN parseSumRest(ts, RatOp(ts[p].t, acc, r.v), r.p) ELSE NoParse
         IN  Applied(parseProduct(ts, p + 1))
    ELSE Parsed(acc, p)

parseSum(ts, p) ==
    LET Rest(r) == IF r.ok THEN parseSumRest(ts, r.v, r.p) ELSE NoParse
    IN  Rest(parseProduct(ts, p))

IsIdentChar(c) == IsWordChar(c) \/ c = "$"

\* the word (run of identifier characters) that ends right before index i
RECURSIVE WordStart(_, _)
WordStart(s, i) ==
    IF i > 1 /\ IsIdentChar(CharAt(s, i - 1)) THEN WordStart(s, i - 1) ELSE i

RECURSIVE WordEnd(_, _)
WordEnd(s, i) ==
    IF i <= Len(s) /\ IsIdentChar(CharAt(s, i)) THEN WordEnd(s, i + 1) ELSE i

RECURSIVE SkipBlanks(_, _)
SkipBlanks(s, i) ==
    IF i <= Len(s) /\ CharAt(s, i) \in {" ", "\t"} THEN SkipBlanks(s, i + 1) ELSE i

\* two operands side by side on one line with nothing between them, outside
\* any string, regular expression or comment: a SyntaxError whatever the
\* names are bound to
AdjacentOperands(s) ==
    LET
        \* words that join two operands or start an expression in JavaScript
        JSOperatorWords == {"new", "typeof", "void", "delete", "in", "instanceof", "await",
                            "yield", "async", "function", "class", "extends", "get", "set",
                            "static"}
    IN
    /\ \A i \in 1..Len(s) : CharAt(s, i) \notin {"'", "\"", "/", "<"}
    /\ \E i \in 2..Len(s) :
          /\ CharAt(s, i) \in {" ", "\t"}
          /\ IsIdentChar(CharAt(s, i - 1))
          /\ LET j == SkipBlanks(s, i)
             IN  /\ j <= Len(s) /\ IsIdentChar(CharAt(s, j))
                 /\ SubSeq(s, WordStart(s, i), i - 1) \notin JSOperatorWords
                 /\ SubSeq(s, j, WordEnd(s, j) - 1) \notin JSOperatorWords

\* new Function(`return ${expr}`)(): a fraction, "throws" for the texts that
\* cannot be evaluated, Foreign otherwise
evalJS(expr) ==
    LET Value(ts, r) ==
            IF r.ok /\ r.p = Len(ts) + 1 THEN r.v
            ELSE IF \E i \in 1..Len(ts) : ts[i].t = "/" THEN Foreign
            ELSE [k |-> "throws"]
        Run(ts) ==
            IF \A i \in 1..Len(ts) : ts[i] # BadTok
            THEN Value(ts, parseSum(ts, 1))
            ELSE IF AdjacentOperands(expr) THEN [k |-> "throws"]
            ELSE Foreign
    IN  IF expr = "" THEN [k |-> "undefined"] ELSE Run(Tokens(expr, 1))

RECURSIVE stripZeros(_)
stripZeros(s) ==
    IF Len(s) > 0 /\ CharAt(s, Len(s)) = "0" THEN stripZeros(SubSeq(s, 1, Len(s) - 1)) ELSE s

\* padStart(w, '0')
RECURSIVE PadLeft(_, _)
PadLeft(s, w) == IF Len(s) >= w THEN s ELSE PadLeft("0" \o s, w)

\* String(q / 10^w) for an integer q
DecimalString(q, w) ==
    LET a     == Abs(q)
        whole == a \div Power(10, w)
        frac  == stripZeros(PadLeft(ToString(a % Power(10, w)), w))
    IN  (IF q < 0 THEN "-" ELSE "") \o ToString(whole)
        \o (IF frac = "" THEN "" ELSE "." \o frac)

\* the integers nearest to n/d (d > 0): one, or the two neighbours when n/d
\* lies halfway between them and the binary value decides
Rounded(n, d) ==
    LET low == n \div d
        rem == n % d
    IN  IF 2 * rem < d THEN {low}
        ELSE IF 2 * rem > d THEN {low + 1}
        ELSE {low, low + 1}

\* numbers the engine can give for a text outside the arithmetic above
ForeignNumbers == {"42"}

MathNull == [null |-> TRUE]

\* LocalNLP.evaluateMath: the results it can have
evaluateMath(input) ==
    LET
        MathNumber(text) == [number |-> text]
    IN
    LET Result(value) ==
            IF value = Foreign
            THEN {MathNull} \cup {MathNumber(n) : n \in ForeignNumbers}
            ELSE IF value.k # "val" THEN {MathNull}
            ELSE {MathNumber(DecimalString(q, 4)) : q \in Rounded(value.n * 10000, value.d)}
        Evaluated(source) ==
            IF source = "" THEN {MathNull} ELSE Result(evalJS(mathExpr(source)))
    IN  Evaluated(mathSource(input))

\* The profile: null when owner-profile.json is missing, else the parsed
\* object.  getProfileManager().getProfile()
NoProfile == JNull

\* profile?.section.key: undefined without a profile, a TypeError when the
\* profile has no such section
profileField(profile, section, key) ==
    IF profile.j \in {"null", "undefined"} THEN [ok |-> TRUE, v |-> Undefined]
    ELSE LET sec == Get(profile, section)
         IN  IF sec.j \in {"null", "undefined"}
             THEN [ok |-> FALSE,
                   error |-> "Cannot read properties of " \o sec.j
                             \o " (reading '" \o key \o "')"]
             ELSE IF sec.j = "obj" THEN [ok |-> TRUE, v |-> Get(sec, key)]
             ELSE [ok |-> TRUE, v |-> Undefined]

\* what process can do: return a result or throw
Throws(error) == [throws |-> error]

NoMatch == [nomatch |-> TRUE]

Answer(text) == AIResponse(JStr(text), JArr(<< >>))

Search(text, type, query) == AIResponse(JStr(text), JArr(<< Cmd(type, query) >>))

\* a || b || c over profile lookups, ending in a built-in default
RECURSIVE firstTruthy(_, _)
firstTruthy(lookups, default) ==
    IF lookups = << >> THEN AIResponse(JStr(default), JArr(<< >>))
    ELSE IF ~Head(lookups).ok THEN Throws(Head(lookups).error)
    ELSE IF Truthy(Head(lookups).v) THEN AIResponse(Head(lookups).v, JArr(<< >>))
    ELSE firstTruthy(Tail(lookups), default)

\* the results of the first stage that claims the message
orElse(first, rest) ==
    (first \ {NoMatch}) \cup (IF NoMatch \in first THEN rest ELSE {})

\* the knowledge base tried from its last entry to its first
RECURSIVE matchEntriesLast(_, _)
matchEntriesLast(query, entries) ==
    IF entries = << >> THEN ""
    ELSE LET kb == entries[Len(entries)]
             patterns == Get(kb, "patterns").a
         IN  IF \E k \in 1..Len(patterns) : includes(query, toLowerCase(patterns[k].s))
             THEN Get(kb, "answer").s
             ELSE matchEntriesLast(query, SubSeq(entries, 1, Len(entries) - 1))

\* LocalNLP.matchKnowledgeBase: the answer of the first entry, in
\* declaration order, one of whose patterns is in the query; "" for null
RECURSIVE matchEntries(_, _)
matchEntries(query, entries) ==
    IF entries = << >> THEN ""
    ELSE LET kb == Head(entries)
             patterns == Get(kb, "patterns").a
         IN  IF \E k \in 1..Len(patterns) : includes(query, toLowerCase(patterns[k].s))
             THEN Get(kb, "answer").s
             ELSE matchEntries(query, Tail(entries))

matchKnowledgeBase(query, profile) ==
    IF profile.j \in {"null", "undefined"} THEN ""
    ELSE IF ~Truthy(Get(profile, "knowledgeBase")) THEN ""
    ELSE matchEntries(query, Get(profile, "knowledgeBase").a)

\* the maximal number /\d+(?:\.\d+)?/ that starts at i: the index after it
NumberEnd(s, i) ==
    LET a == SkipDigits(s, i)
        b == IF MatchAt(s, ".", a) THEN SkipDigits(s, a + 1) ELSE a
    IN  IF b > a + 1 THEN b ELSE a

\* /(\d+(?:\.\d+)?)\s*(?:from)s?\s*(?:to|in)\s*(?:to)s?/ at index i
\* (plural says whether the pattern has the optional s after the unit)
ConversionAt(query, i, from, fromPlural, to) ==
    LET a == NumberEnd(query, i)
        b == SkipSpace(query, a)
    IN  /\ a > i
        /\ \E u \in from : \E c \in {b + Len(u)} \cup (IF fromPlural THEN {b + Len(u) + 1} ELSE {}) :
              /\ MatchAt(query, u, b)
              /\ c = b + Len(u) \/ MatchAt(query, "s", c - 1)
              /\ LET d == SkipSpace(query, c)
                 IN  /\ MatchAt(query, "to", d) \/ MatchAt(query, "in", d)
                     /\ \E v \in to : MatchAt(query, v, SkipSpace(query, d + 2))

\* the captured number of the leftmost match, "" without a match
conversionValue(query, from, fromPlural, to) ==
    LET Leftmost(is) ==
            IF is = {} THEN "" ELSE SubSeq(query, Min(is), NumberEnd(query, Min(is)) - 1)
    IN  Leftmost({i \in 1..Len(query) : ConversionAt(query, i, from, fromPlural, to)})

\* LocalNLP.handleConversion: the texts it can return, {} for null
handleConversion(query) ==
    LET
        \* a captured number the arithmetic below computes: up to three digits
        IsSmallInteger(text) == Len(text) <= 3 /\ \A i \in 1..Len(text) : CharAt(text, i) \in DigitChars
        \* `${parseFloat(text)}`
        FloatString(text) == ToString(DigitsValue(text))
        \* x.toFixed(w) for the x >= 0 with x * 10^w = n/d
        toFixed(n, d, w) ==
            {ToString(q \div Power(10, w)) \o "." \o PadLeft(ToString(q % Power(10, w)), w) :
                q \in Rounded(n, d)}
    IN
    LET other(text, unit, unit2) ==
            {" " \o text \o unit \o " = **" \o n \o unit2 \o "**" : n \in ForeignNumbers}
        Converted(c, f, km, mi, kg, usd) ==
            IF c # ""
            THEN IF IsSmallInteger(c)
                 THEN {" " \o FloatString(c) \o "C = **" \o t \o "F**" :
                           t \in toFixed(DigitsValue(c) * 18 + 320, 1, 1)}
                 ELSE other(c, "C", "F")
            ELSE IF f # ""
            THEN IF IsSmallInteger(f)
                 THEN IF DigitsValue(f) >= 32
                      THEN {" " \o FloatString(f) \o "F = **" \o t \o "C**" :
                                t \in toFixed((DigitsValue(f) - 32) * 50, 9, 1)}
                      ELSE {" " \o FloatString(f) \o "F = **-" \o t \o "C**" :
                                t \in toFixed((32 - DigitsValue(f)) * 50, 9, 1)}
                 ELSE other(f, "F", "C")
            ELSE IF km # ""
            THEN IF IsSmallInteger(km)
                 THEN {" " \o FloatString(km) \o " km = **" \o t \o " miles**" :
                           t \in toFixed(DigitsValue(km) * 621371, 10000, 2)}
                 ELSE other(km, " km", " miles")
            ELSE IF mi # ""
            THEN IF IsSmallInteger(mi)
                 THEN {" " \o FloatString(mi) \o " miles = **" \o t \o " km**" :
                           t \in toFixed(DigitsValue(mi) * 160934, 1000, 2)}
                 ELSE other(mi, " miles", " km")
            ELSE IF kg # ""
            THEN IF IsSmallInteger(kg)
                 THEN {" " \o FloatString(kg) \o " kg = **" \o t \o " lbs**" :
                           t \in toFixed(DigitsValue(kg) * 220462, 1000, 2)}
                 ELSE other(kg, " kg", " lbs")
            ELSE IF usd # ""
            THEN IF IsSmallInteger(usd)
                 THEN {" $" \o FloatString(usd) \o "  **" \o t \o "** (approx)" :
                           t \in toFixed(DigitsValue(usd) * 8300, 1, 2)}
                 ELSE {" $" \o usd \o "  **" \o n \o "** (approx)" : n \in ForeignNumbers}
            ELSE {}
    IN  Converted(
            conversionValue(query, {"celsius", "c"}, FALSE, {"fahrenheit", "f"}),
            conversionValue(query, {"fahrenheit", "f"}, FALSE, {"celsius", "c"}),
            conversionValue(query, {"km", "kilometer", "kilometre"}, TRUE, {"mile", "mi"}),
            conversionValue(query, {"miles", "mile", "mi"}, FALSE, {"km", "kilometer", "kilometre"}),
            conversionValue(query, {"kg", "kilogram", "kilo"}, TRUE, {"lb", "pound"}),
            conversionValue(query, {"usd", "dollars", "dollar", "$"}, FALSE, {"inr", "rupee"}))

\* LocalNLP.matchCommonQuestions
matchCommonQuestions(query) ==
    LET
        \* what toLocaleTimeString / toLocaleDateString can print
        ClockTimes == {"09:05 am", "11:59 pm"}
        ClockDates == {"Tuesday, 3 November 2026"}
        ClockDays == {"Tuesday"}
    IN
    IF MatchWords(query, {"time", "clock", "what time"})
    THEN {Answer(" It's **" \o t \o "**") : t \in ClockTimes}
    ELSE IF MatchWords(query, {"date", "today", "what day"})
    THEN {Answer(" Today is **" \o d \o "**") : d \in ClockDates}
    ELSE IF MatchWords(query, {"which day", "what day is", "day of the week"})
    THEN {Answer(" It's **" \o d \o "**!") : d \in ClockDays}
    ELSE IF MatchWords(query, {"weather", "temperature", "rain", "sunny", "forecast"})
    THEN {Search(" Let me check the weather for you!", "smart_search", query)}
    ELSE LET Further(conversion) ==
                 IF conversion # {}
                 THEN {Answer(text) : text \in conversion}
                 ELSE IF MatchWords(query, {"random number", "pick a number", "roll dice", "flip coin"})
                 THEN IF includes(query, "dice")
                      THEN {Answer(" You rolled a **" \o ToString(roll) \o "**!") : roll \in 1..6}
                      ELSE IF includes(query, "coin") \/ includes(query, "flip")
                      THEN {Answer(" **" \o result \o "**!") : result \in {"Heads", "Tails"}}
                      ELSE {Answer(" Random number: **" \o ToString(num) \o "**") : num \in 1..100}
                 ELSE {NoMatch}
         IN  Further(handleConversion(query))

\* original.replace(/\b(w1|w2|...)\b/gi, ''), from index i
RECURSIVE removeWords(_, _, _)
removeWords(original, words, i) ==
    IF i > Len(original) THEN ""
    ELSE LET lower == toLowerCase(original)
             ks == {k \in 1..Len(words) :
                       /\ MatchAt(lower, words[k], i)
                       /\ WordBoundary(lower, i)
                       /\ WordBoundary(lower, i + Len(words[k]))}
         IN  IF ks # {}
             THEN removeWords(original, words, i + Len(words[Min(ks)]))
             ELSE CharAt(original, i) \o removeWords(original, words, i + 1)

PersonWords == {"who is", "about", "biography", "wiki"}

\* original.replace(/^(who is|about|biography|wiki)\s*/i, '')
stripPersonPrefix(original) ==
    LET lower == toLowerCase(original)
        ws == {p \in PersonWords : startsWith(lower, p)}
    IN  IF ws = {} THEN original
        ELSE SubSeq(original, SkipSpace(original, 1 + Len(CHOOSE p \in ws : TRUE)),
                    Len(original))

\* detectSearchIntent with news looked for before sports
detectSearchIntentNewsFirst(lower, original) ==
    IF MatchWords(lower, {"news", "latest", "breaking", "headlines", "update"})
    THEN LET rest == trim(removeWords(original, <<"news", "latest", "breaking", "headlines">>, 1))
         IN  {Search(" Here's the latest!", "news_search",
                     IF rest # "" THEN rest ELSE "trending")}
    ELSE IF MatchWords(lower, {"score", "match", "vs", "cricket", "football", "ipl", "t20",
                          "live", "world cup", "playing"})
    THEN {Search(" Getting the latest scores!", "sports_search", original)}
    ELSE IF MatchStartWord(lower, PersonWords)
    THEN LET query == trim(stripPersonPrefix(original))
         IN  {Search(" Let me tell you about " \o query \o "!", "person_search", query)}
    ELSE IF MatchWords(lower, {"song", "music", "play", "listen", "album", "singer",
                               "lyrics", "spotify"})
    THEN {Search(" Finding music!", "music_search", original)}
    ELSE IF MatchWords(lower, {"movie", "film", "watch", "series", "show", "netflix",
                               "prime", "imdb"})
    THEN {Search(" Let me find that!", "movie_search", original)}
    ELSE IF MatchWords(lower, {"video", "youtube", "tutorial", "how to", "watch how"})
    THEN {Search(" Found videos!", "youtube_search", original)}
    ELSE IF MatchWords(lower, {"buy", "price", "amazon", "flipkart", "shop", "order",
                               "cost", "cheap"})
    THEN {Search(" Checking prices!", "amazon_search", original)}
    ELSE IF MatchWords(lower, {"location", "map", "direction", "where is", "near me",
                               "restaurant", "hotel", "address"})
    THEN {Search(" Finding location!", "location_search", original)}
    ELSE IF MatchWords(lower, {"game", "gameplay", "steam", "gaming", "xbox",
                               "playstation", "pc game"})
    THEN {Search(" Gaming info!", "game_search", original)}
    ELSE IF MatchWords(lower, {"image", "photo", "picture", "wallpaper", "pic of"})
    THEN {Search(" Finding images!", "image_search", original)}
    ELSE IF MatchStartWord(lower, {"what", "when", "where", "why", "how", "search", "find",
                                   "google", "tell me", "explain"})
    THEN {Search(" Searching...", "smart_search", original)}
    ELSE {NoMatch}

\* LocalNLP.detectSearchIntent
detectSearchIntent(lower, original) ==
    IF MatchWords(lower, {"score", "match", "vs", "cricket", "football", "ipl", "t20",
                          "live", "world cup", "playing"})
    THEN {Search(" Getting the latest scores!", "sports_search", original)}
    ELSE IF MatchWords(lower, {"news", "latest", "breaking", "headlines", "update"})
    THEN LET rest == trim(removeWords(original, <<"news", "latest", "breaking", "headlines">>, 1))
         IN  {Search(" Here's the latest!", "news_search",
                     IF rest # "" THEN rest ELSE "trending")}
    ELSE IF MatchStartWord(lower, PersonWords)
    THEN LET query == trim(stripPersonPrefix(original))
         IN  {Search(" Let me tell you about " \o query \o "!", "person_search", query)}
    ELSE IF MatchWords(lower, {"song", "music", "play", "listen", "album", "singer",
                               "lyrics", "spotify"})
    THEN {Search(" Finding music!", "music_search", original)}
    ELSE IF MatchWords(lower, {"movie", "film", "watch", "series", "show", "netflix",
                               "prime", "imdb"})
    THEN {Search(" Let me find that!", "movie_search", original)}
    ELSE IF MatchWords(lower, {"video", "youtube", "tutorial", "how to", "watch how"})
    THEN {Search(" Found videos!", "youtube_search", original)}
    ELSE IF MatchWords(lower, {"buy", "price", "amazon", "flipkart", "shop", "order",
                               "cost", "cheap"})
    THEN {Search(" Checking prices!", "amazon_search", original)}
    ELSE IF MatchWords(lower, {"location", "map", "direction", "where is", "near me",
                               "restaurant", "hotel", "address"})
    THEN {Search(" Finding location!", "location_search", original)}
    ELSE IF MatchWords(lower, {"game", "gameplay", "steam", "gaming", "xbox",
                               "playstation", "pc game"})
    THEN {Search(" Gaming info!", "game_search", original)}
    ELSE IF MatchWords(lower, {"image", "photo", "picture", "wallpaper", "pic of"})
    THEN {Search(" Finding images!", "image_search", original)}
    ELSE IF MatchStartWord(lower, {"what", "when", "where", "why", "how", "search", "find",
                                   "google", "tell me", "explain"})
    THEN {Search(" Searching...", "smart_search", original)}
    ELSE {NoMatch}

\* LocalNLP.handleConversation
handleConversation(lower, profile) ==
    LET
        howAreYouReplies == {
            "All good! Coding as usual  What's up?",
            "Doing great! You? ",
            "Sab badhiya! Tell me what you need!",
            "Living the dream!  How can I help?" }
        localJokes == {
            "Why don't scientists trust atoms? Because they make up everything! ",
            "I told my wifi we need to talk. It's been disconnecting ever since ",
            "Why do programmers prefer dark mode? Because light attracts bugs! ",
            "What's a computer's favorite snack? Microchips! ",
            "Why was the JavaScript developer sad? Because he didn't Node how to Express himself! " }
        complimentReplies == {
            "Thanks! You're awesome too! ",
            "Haha glad I could help! ",
            "You're making me blush! ",
            "That means a lot! Keep the questions coming! " }
        helpText ==
            " **What I can do:**\n\n"
            \o " **Search:** Just ask anything!\n"
            \o " **Sports:** \"IPL score\", \"India vs Aus\"\n"
            \o " **News:** \"Tech news\", \"Latest headlines\"\n"
            \o " **Entertainment:** \"Movies\", \"Songs\", \"Videos\"\n"
            \o " **Shopping:** \"iPhone price\", \"Buy laptop\"\n"
            \o " **Math:** \"25 * 4\", \"100 + 50\"\n"
            \o " **Convert:** \"30c to f\", \"5km to miles\"\n"
            \o " **Info:** \"What time\", \"Today's date\"\n\n"
            \o "Just ask! I'll figure it out "
    IN
    IF MatchWhole(lower, {"hi", "hello", "hey", "yo", "sup", "hola", "wassup", "namaste",
                          "kem cho", "good morning", "good evening", "good afternoon"})
       \/ IsHii(lower)
    THEN {firstTruthy(<< profileField(profile, "quickResponses", "greeting"),
                         profileField(profile, "botPersonality", "greeting") >>, "Hey! ")}
    ELSE IF MatchWords(lower, {"thank", "thanks", "thx", "thnx", "ty", "shukriya", "dhanyawad"})
    THEN {firstTruthy(<< profileField(profile, "quickResponses", "thanks") >>,
                      "You're welcome! ")}
    ELSE IF MatchWhole(lower, {"bye", "goodbye", "see you", "cya", "later", "tata", "alvida",
                               "good night", "gn", "tc", "take care"})
    THEN {firstTruthy(<< profileField(profile, "quickResponses", "goodbye") >>, "Take care! ")}
    ELSE IF MatchWords(lower, {"how are you", "how r u", "kaise ho", "kya hal", "what's up",
                               "howdy"})
    THEN {Answer(text) : text \in howAreYouReplies}
    ELSE IF MatchWords(lower, {"who are you", "your name", "what are you"})
    THEN LET name == firstTruthy(<< profileField(profile, "profile", "name") >>, "Owner")
         IN  IF "throws" \in DOMAIN name THEN {name}
             ELSE {Answer("I'm " \o ToStr(name.response)
                          \o "'s personal bot!  I help answer messages, search stuff, and keep things running. Ask me anything!")}
    ELSE IF MatchWords(lower, {"joke", "funny", "make me laugh"})
    THEN {Answer(text) : text \in localJokes}
    ELSE IF lower = "help" \/ lower = "/help" \/ includes(lower, "what can you do")
    THEN {Answer(helpText)}
    ELSE IF MatchWords(lower, {"awesome", "great", "good bot", "nice", "thanks", "amazing",
                               "love you", "best"})
    THEN {Answer(text) : text \in complimentReplies}
    ELSE {NoMatch}

DefaultFallbackMessage == "Hmm, not sure about that. Try asking differently? "

\* process with the search routing consulted before the common questions
processSearchFirst(message, profile) ==
    LET Known(found) == IF found # "" THEN {Answer(found)} ELSE {NoMatch}
        Routed(input, lower) ==
            orElse({IF r = MathNull THEN NoMatch ELSE Answer(" = **" \o r.number \o "**") :
                       r \in evaluateMath(input)},
            orElse(Known(matchKnowledgeBase(lower, profile)),
            orElse(detectSearchIntent(lower, input),
            orElse(matchCommonQuestions(lower),
            orElse(handleConversation(lower, profile),
                   IF SplitSpaceLength(input) >= 2
                   THEN {Search(" Let me search that for you!", "smart_search", input)}
                   ELSE {firstTruthy(<< profileField(profile, "botPersonality", "fallbackMessage") >>,
                                     DefaultFallbackMessage)})))))
        Lowered(input) == Routed(input, toLowerCase(input))
    IN  Lowered(trim(message))

\* LocalNLP.process: the results the message can have with this profile
process(message, profile) ==
    LET Known(found) == IF found # "" THEN {Answer(found)} ELSE {NoMatch}
        Routed(input, lower) ==
            orElse({IF r = MathNull THEN NoMatch ELSE Answer(" = **" \o r.number \o "**") :
                       r \in evaluateMath(input)},
            orElse(Known(matchKnowledgeBase(lower, profile)),
            orElse(matchCommonQuestions(lower),
            orElse(detectSearchIntent(lower, input),
            orElse(handleConversation(lower, profile),
                   IF SplitSpaceLength(input) >= 2
                   THEN {Search(" Let me search that for you!", "smart_search", input)}
                   ELSE {firstTruthy(<< profileField(profile, "botPersonality", "fallbackMessage") >>,
                                     DefaultFallbackMessage)})))))
        Lowered(input) == Routed(input, toLowerCase(input))
    IN  Lowered(trim(message))

----------------------------------------------------------------------------
(* The bot: one ClawdBot with its GeminiAI, shared by every interface.     *)
(* A call is one invocation of ClawdBot.processMessage; calls interleave   *)
(* at their awaits (the model call and each executor call).                *)

MaxCalls == 2

MaxHistory == 20

Calls == 1..MaxCalls

Senders == {"alice", "bob"}

Messages == {"hi", "tell me a long story about cats"}

\* what the awaited generateContent can do: answer with a raw text or throw
ModelTexts == {
    << Prose("Cats are great.") >>,
    << Fence("json"), Space("\n"),
       Json("{\"response\":\"On it!\",\"commands\":[web_search,smart_search,linkedin_apply,youtube_search]}",
            JObj([response |-> JStr("On it!"),
                  commands |-> JArr(<< Cmd("web_search", "cats"),
                                       Cmd("smart_search", "cats"),
                                       Cmd("linkedin_apply", "cats"),
                                       Cmd("youtube_search", "cats") >>)])),
       Space("\n"), Fence("") >>,
    << Json("{\"response\":\"ok\",\"commands\":5}",
            JObj([response |-> JStr("ok"), commands |-> JNum(5)])) >>,
    << Json("{\"response\":\"ok\",\"commands\":[null]}",
            JObj([response |-> JStr("ok"), commands |-> JArr(<< JNull >>)])) >> }

ModelOutcomes ==
    LET
        ModelErrors == {
            "[GoogleGenerativeAI Error]: [429 Too Many Requests] quota exceeded",
            "[GoogleGenerativeAI Error]: [500 Internal Server Error]" }
    IN
    {[ok |-> TRUE, pieces |-> t] : t \in ModelTexts}
    \cup {[ok |-> FALSE, error |-> e] : e \in ModelErrors}

Turn(role, content) == [role |-> role, content |-> content]

\* a session left by earlier messages: n turns, user and assistant in turn
SeedSession(n) ==
    [i \in 1..n |-> Turn(IF i % 2 = 1 THEN "user" ELSE "assistant",
                         JStr("turn " \o ToString(i)))]

SeedLengths == {18}

NoValue == [j |-> "undefined"]

VARIABLES
    model,                \* GeminiAI.model is set (an API key was configured)
    conversationHistory,  \* ClawdBot.conversationHistory: senderId -> turns
    pc,                   \* per call: where the invocation is suspended
    senderId,             \* per call: context.senderId
    message,              \* per call: the message argument
    aiResponse,           \* per call: the result of ai.processMessage
    commands,             \* per call: the parsed commands
    next,                 \* per call: index of the command being executed
    executionResults,     \* per call: the outputs pushed so far
    reply,                \* per call: the BotResponse returned
    caught,               \* per call: the error the catch block got
    modelCalls,           \* history variable: generateContent calls per call
    generated,            \* history variable: how generateContent settled
    events,               \* history variable: executor calls and returns
    appended              \* history variable: every turn ever appended

botVars == << model, conversationHistory, pc, senderId, message, aiResponse,
              commands, next, executionResults, reply, caught,
              modelCalls, generated, events, appended >>

\* LocalNLP.process on its own: one message, one profile
VARIABLES
    nlpMessage,           \* the message argument of process
    nlpProfile,           \* what getProfileManager().getProfile() gives
    nlpResult,            \* what process returned or threw
    nlpEvaluated          \* the text evaluateMath handed to new Function

nlpVars == << nlpMessage, nlpProfile, nlpResult, nlpEvaluated >>

\* the reply parsing of GeminiAI.processMessage and parseCommands on their own
VARIABLES
    rawText,              \* result.response.text(), as pieces
    parsedReply,          \* the AIResponse built from it
    parsedCommands        \* what parseCommands made of its commands

parseVars == << rawText, parsedReply, parsedCommands >>

\* WhatsAppInterface.handleMessage and the pause map of ProfileManager
VARIABLES
    now,                  \* Date.now()
    pausedChats,          \* ProfileManager.pausedChats: chatId -> resumeTime
    ownerProfile,         \* ProfileManager.profile
    allowedNumbers,       \* WhatsAppInterface.allowedNumbers
    hpc,                  \* per handleMessage invocation: where it is suspended
    hjid,                 \* per invocation: message.key.remoteJid
    lastOwner,            \* history variable: chat -> time of the last owner message
    waEvents              \* history variable: what the invocations did, and when

waVars == << now, pausedChats, ownerProfile, allowedNumbers, hpc, hjid, lastOwner, waEvents >>

\* SystemControl.runCommand on its own: one command
VARIABLES
    sysCommand,           \* the command argument of runCommand
    sysPc,                \* where the call is: before it, at the await of exec, over
    sysResult,            \* the ExecutionResult it returned
    sysStarted            \* history variable: the commands given to exec

sysVars == << sysCommand, sysPc, sysResult, sysStarted >>

\* ProductivityManager: the reminders and the runs of the checker's callback
VARIABLES
    clock,                \* the time new Date() gives
    reminders,            \* ProductivityManager.reminders
    tickPc,               \* per run of the callback: where it is suspended
    tickNow,              \* per run: its const now
    tickAt,               \* per run: the index of the reminder its loop is at
    triggered             \* history variable: the calls of onReminderTrigger

remVars == << clock, reminders, tickPc, tickNow, tickAt, triggered >>

\* ProductivityManager: the todos
VARIABLES
    todos,                \* ProductivityManager.todos
    listed,               \* what the last getTodos returned
    completion            \* history variable: the last completeTodo by number

todoVars == << todos, listed, completion >>

auxVars == << sysVars, remVars, todoVars >>

vars == << botVars, nlpVars, parseVars, waVars, auxVars >>

\* ClawdBot.getConversationHistory
getConversationHistory(history, sender) ==
    IF sender \in DOMAIN history THEN history[sender] ELSE << >>

\* a truncation that keeps the oldest turns instead of the newest
addToHistoryKeepOldest(history, sender, role, content) ==
    LET pushed == Append(getConversationHistory(history, sender), Turn(role, content))
        kept   == IF Len(pushed) > MaxHistory THEN SubSeq(pushed, 1, MaxHistory) ELSE pushed
    IN  [s \in DOMAIN history \cup {sender} |-> IF s = sender THEN kept ELSE history[s]]

\* ClawdBot.addToHistory
addToHistory(history, sender, role, content) ==
    LET pushed == Append(getConversationHistory(history, sender), Turn(role, content))
        kept   == IF Len(pushed) > MaxHistory
                  THEN SubSeq(pushed, Len(pushed) - MaxHistory + 1, Len(pushed))
                  ELSE pushed
    IN  [s \in DOMAIN history \cup {sender} |-> IF s = sender THEN kept ELSE history[s]]

MaxHandlers == 2

\* concurrent invocations of WhatsAppInterface.handleMessage
Handlers == 1..MaxHandlers

\* the parts of the state a run of one component leaves alone
nlpAtRest ==
    /\ nlpMessage = ""
    /\ nlpProfile = JNull
    /\ nlpResult = NoValue
    /\ nlpEvaluated = NoValue

parseAtRest ==
    /\ rawText = << >>
    /\ parsedReply = NoValue
    /\ parsedCommands = NoValue

waAtRest ==
    /\ now = 0
    /\ pausedChats = << >>
    /\ ownerProfile = JNull
    /\ allowedNumbers = {}
    /\ hpc = [h \in Handlers |-> "idle"]
    /\ hjid = [h \in Handlers |-> ""]
    /\ lastOwner = << >>
    /\ waEvents = << >>

\* the runs of the reminder checker's callback that can be under way at once
MaxTicks == 2

Ticks == 1..MaxTicks

sysAtRest ==
    /\ sysCommand = ""
    /\ sysPc = "idle"
    /\ sysResult = NoValue
    /\ sysStarted = << >>

remAtRest ==
    /\ clock = 0
    /\ reminders = << >>
    /\ tickPc = [t \in Ticks |-> "idle"]
    /\ tickNow = [t \in Ticks |-> 0]
    /\ tickAt = [t \in Ticks |-> 0]
    /\ triggered = << >>

todoAtRest ==
    /\ todos = << >>
    /\ listed = NoValue
    /\ completion = NoValue

auxAtRest == sysAtRest /\ remAtRest /\ todoAtRest

botAtRest ==
    /\ model = FALSE
    /\ conversationHistory = << >>
    /\ pc = [c \in Calls |-> "idle"]
    /\ senderId = [c \in Calls |-> ""]
    /\ message = [c \in Calls |-> ""]
    /\ aiResponse = [c \in Calls |-> NoValue]
    /\ commands = [c \in Calls |-> << >>]
    /\ next = [c \in Calls |-> 0]
    /\ executionResults = [c \in Calls |-> << >>]
    /\ reply = [c \in Calls |-> NoValue]
    /\ caught = [c \in Calls |-> NoValue]
    /\ modelCalls = [c \in Calls |-> 0]
    /\ generated = [c \in Calls |-> NoValue]
    /\ events = [c \in Calls |-> << >>]
    /\ appended = [s \in Senders |-> << >>]

Init ==
    /\ nlpAtRest /\ parseAtRest /\ waAtRest /\ auxAtRest
    /\ model \in BOOLEAN
    /\ conversationHistory \in {[s \in {"alice"} |-> SeedSession(n)] : n \in SeedLengths}
    /\ pc = [c \in Calls |-> "idle"]
    /\ senderId = [c \in Calls |-> ""]
    /\ message = [c \in Calls |-> ""]
    /\ aiResponse = [c \in Calls |-> NoValue]
    /\ commands = [c \in Calls |-> << >>]
    /\ next = [c \in Calls |-> 0]
    /\ executionResults = [c \in Calls |-> << >>]
    /\ reply = [c \in Calls |-> NoValue]
    /\ caught = [c \in Calls |-> NoValue]
    /\ modelCalls = [c \in Calls |-> 0]
    /\ generated = [c \in Calls |-> NoValue]
    /\ events = [c \in Calls |-> << >>]
    /\ appended = [s \in Senders |-> getConversationHistory(conversationHistory, s)]

----------------------------------------------------------------------------
(* ClawdBot.processMessage, cut at its awaits.                             *)

ResultsHeader == "\n\n **Results:**\n"

RECURSIVE join(_, _)
join(strs, sep) ==
    IF strs = << >> THEN ""
    ELSE IF Len(strs) = 1 THEN strs[1]
    ELSE strs[1] \o sep \o join(Tail(strs), sep)

\* lines 77-87: the reply of a call that ran to its end
finalResponse(response, results) ==
    IF Len(results) > 0
    THEN ToStr(response) \o ResultsHeader \o join(results, "\n")
    ELSE ToStr(response)

BotResponse(text) == [text |-> text]

\* a catch block that hands the raw error on instead of an apology
errorResponseRaw(errorMessage) ==
    [text |-> errorMessage, error |-> TRUE]

\* lines 89-95: the reply the catch block builds from the caught error
errorResponse(errorMessage) ==
    [text |-> " Sorry, I encountered an error: " \o errorMessage, error |-> TRUE]

\* unshift instead of push
pushOutputFront(results, result) ==
    IF "output" \in DOMAIN result /\ result.output # ""
    THEN << result.output >> \o results
    ELSE results

\* lines 62-64: the output of a result is kept when it is non-empty
pushOutput(results, result) ==
    IF "output" \in DOMAIN result /\ result.output # ""
    THEN Append(results, result.output)
    ELSE results

\* the two addToHistory calls in the wrong order
historyTurnsSwapped(msg, response) ==
    << Turn("assistant", response), Turn("user", JStr(msg)) >>

\* lines 74-75: the turns a handled message adds, in the order of the calls
historyTurns(msg, response) ==
    << Turn("user", JStr(msg)), Turn("assistant", response) >>

RECURSIVE addAllToHistory(_, _, _)
addAllToHistory(history, sender, turns) ==
    IF turns = << >> THEN history
    ELSE addAllToHistory(addToHistory(history, sender, Head(turns).role, Head(turns).content),
                         sender, Tail(turns))

Called(command) == [e |-> "call", command |-> command]

Returned(command, result) == [e |-> "return", command |-> command, result |-> result]

\* lines 73-87 for call c: history update and return
Finish(c, resp, results) ==
    /\ conversationHistory' =
          addAllToHistory(conversationHistory, senderId[c],
                          historyTurns(message[c], resp.response))
    /\ appended' = [appended EXCEPT ![senderId[c]] =
                       @ \o historyTurns(message[c], resp.response)]
    /\ reply' = [reply EXCEPT ![c] = BotResponse(finalResponse(resp.response, results))]
    /\ pc' = [pc EXCEPT ![c] = "done"]
    /\ UNCHANGED caught

\* a catch block that still records the message that failed
CatchRecording(c, errorMessage) ==
    /\ caught' = [caught EXCEPT ![c] = [name |-> "TypeError", message |-> errorMessage]]
    /\ reply' = [reply EXCEPT ![c] = errorResponse(errorMessage)]
    /\ pc' = [pc EXCEPT ![c] = "done"]
    /\ conversationHistory' =
          addToHistory(conversationHistory, senderId[c], "user", JStr(message[c]))
    /\ appended' = [appended EXCEPT ![senderId[c]] =
                       Append(@, Turn("user", JStr(message[c])))]

\* lines 89-95 for call c
Catch(c, errorMessage) ==
    /\ caught' = [caught EXCEPT ![c] = [name |-> "TypeError", message |-> errorMessage]]
    /\ reply' = [reply EXCEPT ![c] = errorResponse(errorMessage)]
    /\ pc' = [pc EXCEPT ![c] = "done"]
    /\ UNCHANGED << conversationHistory, appended >>

\* lines 53-61 for call c once ai.processMessage has returned resp:
\* parse the commands, then start the first one or finish
AfterAI(c, resp) ==
    LET parsed == parseCommands(IF Truthy(resp.commands) THEN resp.commands
                                ELSE JArr(<< >>))
    IN  /\ aiResponse' = [aiResponse EXCEPT ![c] = resp]
        /\ IF ~parsed.ok
           THEN /\ Catch(c, parsed.error)
                /\ UNCHANGED << commands, next, events >>
           ELSE /\ commands' = [commands EXCEPT ![c] = parsed.v]
                /\ IF parsed.v = << >>
                   THEN /\ Finish(c, resp, << >>)
                        /\ UNCHANGED << next, events >>
                   ELSE /\ next' = [next EXCEPT ![c] = 1]
                        /\ events' = [events EXCEPT ![c] = Append(@, Called(parsed.v[1]))]
                        /\ pc' = [pc EXCEPT ![c] = "execute"]
                        /\ UNCHANGED << conversationHistory, appended, reply, caught >>

\* an owner-profile.json, as the OwnerProfile interface describes it
SampleProfile ==
    JObj([profile        |-> JObj([name |-> JStr("Manthan")]),
          botPersonality |-> JObj([greeting |-> JStr("Namaste! Manthan's bot here."),
                                   fallbackMessage |-> JStr("Not sure, Manthan will get back to you.")]),
          quickResponses |-> JObj([greeting |-> JStr("Hi! Manthan's assistant here."),
                                   goodbye  |-> JStr("Bye! Talk soon."),
                                   thanks   |-> JStr("Anytime!")]),
          knowledgeBase  |-> JArr(<< JObj([patterns |-> JArr(<< JStr("Your Projects") >>),
                                           answer   |-> JStr("Manthan builds bots.")]) >>)])

Profiles == {NoProfile, SampleProfile}

\* the results of LocalNLP.process for the messages and profiles above
processTable == [m \in Messages |-> [p \in Profiles |-> process(m, p)]]

\* the replies of fallbackParse, parseModelText and the catch block for the
\* messages and model outcomes above
fallbackTable == [m \in Messages |-> [u \in RandomDraws |-> fallbackParse(m, u)]]

generateTable ==
    [m \in Messages |-> [o \in ModelOutcomes |-> [u \in RandomDraws |->
        IF o.ok THEN parseModelText(o.pieces) ELSE modelFailed(m, o.error, u)]]]

\* a model that is always there
hasModelAlways == TRUE

\* this.model is set (ai.ts line 88): initialize found an API key
hasModel == model

\* lines 42-50: a message arrives; ai.processMessage runs up to its first
\* await (generateContent), or returns fallbackParse when no model is set
Start(c, sender, msg, u) ==
    /\ pc[c] = "idle"
    \* invocations are numbered in the order they begin
    /\ \A d \in Calls : d < c => pc[d] # "idle"
    /\ senderId' = [senderId EXCEPT ![c] = sender]
    /\ message' = [message EXCEPT ![c] = msg]
    /\ IF hasModel
       THEN /\ pc' = [pc EXCEPT ![c] = "generate"]
            /\ modelCalls' = [modelCalls EXCEPT ![c] = @ + 1]
            /\ UNCHANGED aiResponse
       ELSE /\ pc' = [pc EXCEPT ![c] = "resume"]
            /\ aiResponse' = [aiResponse EXCEPT ![c] = fallbackTable[msg][u]]
            /\ UNCHANGED modelCalls
    /\ UNCHANGED << model, conversationHistory, commands, next, executionResults,
                    reply, caught, generated, events, appended >>
    /\ UNCHANGED << nlpVars, parseVars, waVars, auxVars >>

\* the await of line 50 resumes with the result fallbackParse gave
Resume(c) ==
    /\ pc[c] = "resume"
    /\ AfterAI(c, aiResponse[c])
    /\ UNCHANGED << model, senderId, message, executionResults, modelCalls, generated >>
    /\ UNCHANGED << nlpVars, parseVars, waVars, auxVars >>

\* a catch block that calls the model once more after a failure
GenerateReturnRetrying(c, outcome, u) ==
    /\ pc[c] = "generate"
    /\ generated' = [generated EXCEPT ![c] = outcome]
    /\ IF ~outcome.ok /\ modelCalls[c] < 2
       THEN /\ modelCalls' = [modelCalls EXCEPT ![c] = @ + 1]
            /\ UNCHANGED << pc, aiResponse, commands, next, events,
                            conversationHistory, appended, reply, caught >>
       ELSE /\ AfterAI(c, generateTable[message[c]][outcome][u])
            /\ UNCHANGED modelCalls
    /\ UNCHANGED << model, senderId, message, executionResults >>
    /\ UNCHANGED << nlpVars, parseVars, waVars, auxVars >>

\* generateContent settles: ai.processMessage lines 110-158, then the facade
GenerateReturn(c, outcome, u) ==
    /\ pc[c] = "generate"
    /\ AfterAI(c, generateTable[message[c]][outcome][u])
    /\ generated' = [generated EXCEPT ![c] = outcome]
    /\ UNCHANGED << model, senderId, message, executionResults, modelCalls >>
    /\ UNCHANGED << nlpVars, parseVars, waVars, auxVars >>

\* executor.execute settles for the current command: lines 61-71, then the
\* next command is started or the call finishes
ExecuteReturn(c, result) ==
    /\ pc[c] = "execute"
    /\ LET results == pushOutput(executionResults[c], result)
           returned == Append(events[c], Returned(commands[c][next[c]], result))
       IN  /\ executionResults' = [executionResults EXCEPT ![c] = results]
           /\ IF next[c] < Len(commands[c])
              THEN /\ next' = [next EXCEPT ![c] = @ + 1]
                   /\ events' = [events EXCEPT ![c] =
                                   Append(returned, Called(commands[c][next[c] + 1]))]
                   /\ UNCHANGED << pc, conversationHistory, appended, reply, caught >>
              ELSE /\ events' = [events EXCEPT ![c] = returned]
                   /\ Finish(c, aiResponse[c], results)
                   /\ UNCHANGED next
    /\ UNCHANGED << model, senderId, message, aiResponse, commands, modelCalls,
                    generated >>
    /\ UNCHANGED << nlpVars, parseVars, waVars, auxVars >>

Next ==
    \/ \E c \in Calls, sender \in Senders, msg \in Messages, u \in RandomDraws :
          Start(c, sender, msg, u)
    \/ \E c \in Calls : Resume(c)
    \/ \E c \in Calls, outcome \in ModelOutcomes, u \in RandomDraws :
          GenerateReturn(c, outcome, u)
    \/ \E c \in Calls :
          /\ pc[c] = "execute"
          /\ \E result \in execute(commands[c][next[c]]) : ExecuteReturn(c, result)

Spec == Init /\ [][Next]_vars

----------------------------------------------------------------------------
(* LocalNLP.process on its own: a message and a profile are drawn, and     *)
(* process is applied to them once.                                        *)

NlpMessages == {
    "2+2", "what is 5*3", "10/4", "2^3", "50% of 200", "two plus three", "(1+2)*3",
    "what is Date.now()", "2+alert(1)", "5g network", "(process.exit())",
    "your projects", "what time is it", "what is the date today", "weather in pune",
    "30c to f", "roll dice", "flip coin",
    "ipl score news", "latest news india", "who is sachin", "play a song",
    "watch movie trailer", "youtube tutorial", "buy iphone price", "restaurant near me",
    "steam game", "wallpaper image", "how to cook", "news about movie", "buy a game",
    "thanks for the news", "what time is the match", "song video", "photo of hotel",
    "hi", "hiii", "thanks", "bye", "how are you", "howdy", "who are you", "joke",
    "tell me a joke", "help", "awesome", "good morning", "xyz", "random words here", "",
    "Weather in Delhi", "IPL Score", "Random Words Here", "foo\tbar",
    "Your SKILLS and projects", "twenty", "candles 5", "stone and sand" }

NlpInit ==
    LET
        \* no profile, a full profile, an owner-profile.json that has only the
        \* profile section, and a profile whose knowledge base has two entries
        NlpProfiles ==
            {NoProfile, SampleProfile, JObj([profile |-> JObj([name |-> JStr("Manthan")])]),
             JObj([SampleProfile.f EXCEPT !.knowledgeBase = JArr(<<
                 JObj([patterns |-> JArr(<< JStr("Skills") >>),
                       answer   |-> JStr("Manthan knows TypeScript.")]),
                 JObj([patterns |-> JArr(<< JStr("resume"), JStr("your skills") >>),
                       answer   |-> JStr("Ask for the resume.")]) >>)])}
    IN
    /\ botAtRest /\ parseAtRest /\ waAtRest /\ auxAtRest
    /\ nlpMessage \in NlpMessages
    /\ nlpProfile \in NlpProfiles
    /\ nlpResult = NoValue
    /\ nlpEvaluated = NoValue

\* process(message) is called and returns or throws; nlpEvaluated is the
\* text evaluateMath gave to new Function (lines 89-103), if any
Classify ==
    LET input == trim(nlpMessage)
    IN  /\ nlpResult = NoValue
        /\ nlpResult' \in process(nlpMessage, nlpProfile)
        /\ nlpEvaluated' = IF mathSource(input) = "" THEN NoValue
                           ELSE JStr(mathExpr(mathSource(input)))
        /\ UNCHANGED << nlpMessage, nlpProfile, botVars, parseVars, waVars, auxVars >>

NlpSpec == NlpInit /\ [][Classify]_vars

----------------------------------------------------------------------------
(* The reading of a model reply on its own: a raw text is drawn, the reply *)
(* is built from it as GeminiAI.processMessage does after a successful     *)
(* call, and its commands go through CommandParser.parseCommands as        *)
(* ClawdBot.processMessage does next.                                      *)

\* the raw texts: each JSON text alone, between blanks, in a fenced block
\* with or without the word json, inside prose, in a fenced block inside
\* prose, and after an opening fence that is never closed; and plain prose
ParseTexts ==
    LET
        \* JSON texts a model can answer with
        ParseJsons ==
            LET cats == JObj([query |-> JStr("cats")])
                Reply(src, cmds) ==
                    Json("{\"response\":\"On it!\",\"commands\":" \o src \o "}",
                         JObj([response |-> JStr("On it!"), commands |-> cmds]))
            IN  { Json("{\"response\":\"On it!\"}", JObj([response |-> JStr("On it!")])),
                  Json("{\"response\":\"\"}", JObj([response |-> JStr("")])),
                  Json("{\"commands\":[]}", JObj([commands |-> JArr(<< >>)])),
                  Json("[1]", JArr(<< JNum(1) >>)),
                  Json("null", JNull),
                  Reply("[]", JArr(<< >>)),
                  Reply("[{\"type\":\"web_search\",\"params\":{\"query\":\"cats\"}}]",
                        JArr(<< Cmd("web_search", "cats") >>)),
                  Reply("[{\"params\":{\"query\":\"cats\"}}]",
                        JArr(<< JObj([params |-> cats]) >>)),
                  Reply("[{\"type\":\"web_search\"}]",
                        JArr(<< JObj([type |-> JStr("web_search")]) >>)),
                  Reply("[{\"type\":\"fly\",\"params\":{\"query\":\"cats\"}},{\"type\":\"help\",\"params\":{}}]",
                        JArr(<< Cmd("fly", "cats"),
                                JObj([type |-> JStr("help"), params |-> JObj([k \in {} |-> Undefined])]) >>)),
                  Reply("[\"search\",{\"type\":\"youtube_search\",\"params\":{\"query\":\"cats\"}}]",
                        JArr(<< JStr("search"), Cmd("youtube_search", "cats") >>)),
                  Reply("[null]", JArr(<< JNull >>)),
                  Reply("5", JNum(5)) }
    IN
    LET before == Prose("Sure! Here you go: ")
        after  == Prose(" Hope that helps.")
    IN  UNION {{ << j >>,
                 << Space("\n"), j, Space(" ") >>,
                 << Fence("json"), Space("\n"), j, Space("\n"), Fence("") >>,
                 << Fence(""), j, Fence("") >>,
                 << before, j, after >>,
                 << before, Fence("json"), Space("\n"), j, Space("\n"), Fence(""), after >>,
                 << Fence("json"), Space("\n"), j >> } : j \in ParseJsons}
        \cup {<< Prose("Cats are great.") >>}

ParseInit ==
    /\ botAtRest /\ nlpAtRest /\ waAtRest /\ auxAtRest
    /\ rawText \in ParseTexts
    /\ parsedReply = NoValue
    /\ parsedCommands = NoValue

\* ai.ts lines 111-131, then parseCommands(aiResponse.commands)
Parse ==
    /\ parsedReply = NoValue
    /\ parsedReply' = parseModelText(rawText)
    /\ parsedCommands' = parseCommands(parsedReply'.commands)
    /\ UNCHANGED << rawText, botVars, nlpVars, waVars, auxVars >>

ParseSpec == ParseInit /\ [][Parse]_vars

----------------------------------------------------------------------------
(* The WhatsApp interface and the owner takeover.  Every messages.upsert   *)
(* event starts its own run of handleMessage; the runs interleave at their *)
(* awaits.  A handler is one such run.  The clock is Date.now(), in        *)
(* milliseconds.                                                           *)

MaxSeconds == 3

DefaultPauseSeconds == 300

Jids == {"919876543210@s.whatsapp.net", "19876543210@s.whatsapp.net"}

\* allowed.replace(/\D/g, '')
RECURSIVE removeNonDigits(_)
removeNonDigits(s) ==
    IF Len(s) = 0 THEN ""
    ELSE (IF CharAt(s, 1) \in DigitChars THEN CharAt(s, 1) ELSE "")
         \o removeNonDigits(Tail(s))

\* senderJid.split('@')[0]
senderNumberOf(senderJid) ==
    LET ats == {i \in 1..Len(senderJid) : CharAt(senderJid, i) = "@"}
    IN  IF ats = {} THEN senderJid ELSE SubSeq(senderJid, 1, Min(ats) - 1)

\* handleMessage, lines 186-189: some entry of the whitelist allows the sender
isAllowed(allowed, senderNumber) ==
    \E entry \in allowed :
        \/ includes(senderNumber, removeNonDigits(entry))
        \/ includes(entry, senderNumber)

\* ProfileManager.pauseForOwner at time t: the new pausedChats
pauseForOwner(profile, chats, chatId, t) ==
    IF profile = NoProfile THEN chats
    ELSE IF ~profile.ownerTakeover.enabled THEN chats
    ELSE LET seconds == profile.ownerTakeover.pauseDurationSeconds
             pauseDuration == (IF seconds # 0 THEN seconds ELSE DefaultPauseSeconds) * 1000
             resumeTime == t + pauseDuration
         IN  (chatId :> resumeTime) @@ chats

\* isPausedForChat with the entry taken as expired from resumeTime on
isPausedForChatEarly(chats, chatId, t) ==
    IF chatId \notin DOMAIN chats THEN [result |-> FALSE, pausedChats |-> chats]
    ELSE IF t >= chats[chatId]
    THEN [result |-> FALSE,
          pausedChats |-> [c \in DOMAIN chats \ {chatId} |-> chats[c]]]
    ELSE [result |-> TRUE, pausedChats |-> chats]

\* ProfileManager.isPausedForChat at time t: what it returns and the
\* pausedChats it leaves
isPausedForChat(chats, chatId, t) ==
    IF chatId \notin DOMAIN chats THEN [result |-> FALSE, pausedChats |-> chats]
    ELSE IF chats[chatId] = 0 THEN [result |-> FALSE, pausedChats |-> chats]
    ELSE IF t > chats[chatId]
    THEN [result |-> FALSE,
          pausedChats |-> [c \in DOMAIN chats \ {chatId} |-> chats[c]]]
    ELSE [result |-> TRUE, pausedChats |-> chats]

WAInit ==
    LET
        \* OwnerProfile.ownerTakeover (profile.ts, lines 74-78)
        Takeover(enabled, seconds) ==
            [ownerTakeover |-> [enabled |-> enabled, pauseDurationSeconds |-> seconds]]
        \* no owner-profile.json, takeover switched off, a pause of one second, and
        \* a pause whose duration is left at 0
        WAProfiles == {NoProfile, Takeover(FALSE, 1), Takeover(TRUE, 1), Takeover(TRUE, 0)}
    IN
    /\ botAtRest /\ nlpAtRest /\ parseAtRest /\ auxAtRest
    /\ now = 0
    /\ pausedChats = << >>
    /\ ownerProfile \in WAProfiles
    /\ allowedNumbers \in {{}, {"919876543210"}, {"+91 98765 43210"}}
    /\ hpc = [h \in Handlers |-> "idle"]
    /\ hjid = [h \in Handlers |-> ""]
    /\ lastOwner = << >>
    /\ waEvents = << >>

\* a handleMessage whose pause for the owner also switches the takeover off
\* in the profile
ReceiveSwitchingOff(h, jid, isFromMe, addressed) ==
    /\ hpc[h] = "idle"
    /\ hjid' = [hjid EXCEPT ![h] = jid]
    /\ IF isFromMe
       THEN /\ pausedChats' = pauseForOwner(ownerProfile, pausedChats, jid, now)
            /\ lastOwner' = (jid :> now) @@ lastOwner
            /\ hpc' = [hpc EXCEPT ![h] = "done"]
            /\ waEvents' = waEvents
       ELSE LET paused == isPausedForChat(pausedChats, jid, now)
                blocked == /\ allowedNumbers # {}
                           /\ ~isAllowed(allowedNumbers, senderNumberOf(jid))
            IN  /\ pausedChats' = paused.pausedChats
                /\ lastOwner' = lastOwner
                /\ hpc' = [hpc EXCEPT ![h] =
                              IF paused.result \/ ~addressed \/ blocked
                              THEN "done" ELSE "typing"]
                /\ waEvents' =
                       IF ~paused.result /\ addressed /\ blocked
                       THEN Append(waEvents,
                                   [kind |-> "notice", jid |-> jid, paused |-> FALSE])
                       ELSE waEvents
    /\ ownerProfile' =
           IF isFromMe /\ ownerProfile # NoProfile
           THEN [ownerProfile EXCEPT !.ownerTakeover.enabled = FALSE]
           ELSE ownerProfile
    /\ UNCHANGED << now, allowedNumbers, botVars, nlpVars, parseVars, auxVars >>

\* handleMessage, lines 110-211: a message of chat jid arrives, from the
\* owner's own account or not; addressed says that it has a text and
\* carries the trigger.  A sender the whitelist does not allow is sent the
\* notice (line 193) and the run ends
Receive(h, jid, isFromMe, addressed) ==
    /\ hpc[h] = "idle"
    /\ hjid' = [hjid EXCEPT ![h] = jid]
    /\ IF isFromMe
       THEN /\ pausedChats' = pauseForOwner(ownerProfile, pausedChats, jid, now)
            /\ lastOwner' = (jid :> now) @@ lastOwner
            /\ hpc' = [hpc EXCEPT ![h] = "done"]
            /\ waEvents' = waEvents
       ELSE LET paused == isPausedForChat(pausedChats, jid, now)
                blocked == /\ allowedNumbers # {}
                           /\ ~isAllowed(allowedNumbers, senderNumberOf(jid))
            IN  /\ pausedChats' = paused.pausedChats
                /\ lastOwner' = lastOwner
                /\ hpc' = [hpc EXCEPT ![h] =
                              IF paused.result \/ ~addressed \/ blocked
                              THEN "done" ELSE "typing"]
                /\ waEvents' =
                       IF ~paused.result /\ addressed /\ blocked
                       THEN Append(waEvents,
                                   [kind |-> "notice", jid |-> jid, paused |-> FALSE])
                       ELSE waEvents
    /\ UNCHANGED << now, ownerProfile, allowedNumbers, botVars, nlpVars, parseVars, auxVars >>

\* lines 213-217: the awaits of the typing indicator are over and
\* bot.processMessage is called
InvokeBot(h) ==
    /\ hpc[h] = "typing"
    /\ hpc' = [hpc EXCEPT ![h] = "bot"]
    /\ waEvents' = Append(waEvents,
                          [kind |-> "invoke", jid |-> hjid[h],
                           paused |-> isPausedForChat(pausedChats, hjid[h], now).result])
    /\ UNCHANGED << now, pausedChats, ownerProfile, allowedNumbers, hjid, lastOwner,
                    botVars, nlpVars, parseVars, auxVars >>

\* lines 217-223: the bot's response is there and is sent into the chat
SendReply(h) ==
    /\ hpc[h] = "bot"
    /\ hpc' = [hpc EXCEPT ![h] = "done"]
    /\ waEvents' = Append(waEvents,
                          [kind |-> "reply", jid |-> hjid[h],
                           paused |-> isPausedForChat(pausedChats, hjid[h], now).result])
    /\ UNCHANGED << now, pausedChats, ownerProfile, allowedNumbers, hjid, lastOwner,
                    botVars, nlpVars, parseVars, auxVars >>

\* the clock moves on: by a second, or to the end of a pause or just past it
Tick ==
    /\ now < MaxSeconds * 1000
    /\ \E t \in {now + 1000} \cup {pausedChats[c] + d : c \in DOMAIN pausedChats, d \in {0, 1}} :
          /\ t > now
          /\ now' = t
    /\ UNCHANGED << pausedChats, ownerProfile, allowedNumbers, hpc, hjid, lastOwner, waEvents,
                    botVars, nlpVars, parseVars, auxVars >>

WANext ==
    \/ \E h \in Handlers, jid \in Jids, isFromMe \in BOOLEAN, addressed \in BOOLEAN :
          Receive(h, jid, isFromMe, addressed)
    \/ \E h \in Handlers : InvokeBot(h)
    \/ \E h \in Handlers : SendReply(h)
    \/ Tick

WASpec == WAInit /\ [][WANext]_vars

----------------------------------------------------------------------------
(* SystemControl.runCommand on its own: one command is drawn and run; the  *)
(* call is cut at its await of exec.                                       *)

\* SystemControl.blockedCommands, in the insertion order of the Set
blockedCommands == << "format", "del", "rm", "rmdir", "rd", "diskpart" >>

\* the safety check without the lower-casing of the command
blockedInExactCase(command) ==
    LET First(ks) == IF ks = {} THEN "" ELSE blockedCommands[Min(ks)]
    IN  First({k \in 1..Len(blockedCommands) : includes(command, blockedCommands[k])})

\* runCommand, lines 30-38: the blocked command the loop returns for, ""
\* when it finds none
blockedIn(command) ==
    LET First(ks) == IF ks = {} THEN "" ELSE blockedCommands[Min(ks)]
        Checked(lowerCmd) ==
            First({k \in 1..Len(blockedCommands) : includes(lowerCmd, blockedCommands[k])})
    IN  Checked(toLowerCase(command))

SysInit ==
    LET words == {"rm", "RM", "Rm", "del", "DEL", "format", "Format", "rmdir", "RmDir",
                  "rd", "RD", "diskpart", "DISKPART", "dir", "echo", "ls", "whoami",
                  "type model.txt", "START notepad"}
        befores == {"", "sudo ", "cmd /c "}
        afters  == {"", " -rf /tmp/x", " C:"}
    IN
    /\ botAtRest /\ nlpAtRest /\ parseAtRest /\ waAtRest /\ remAtRest /\ todoAtRest
    /\ sysCommand \in {b \o w \o a : b \in befores, w \in words, a \in afters}
    /\ sysPc = "idle"
    /\ sysResult = NoValue
    /\ sysStarted = << >>

\* runCommand, lines 28-43: the safety check, then exec is called
RunCommand ==
    /\ sysPc = "idle"
    /\ LET Checked(blocked) ==
               IF blocked # ""
               THEN /\ sysResult' =
                          [success |-> FALSE,
                           error |-> " Command \"" \o blocked
                                     \o "\" is blocked for safety. If you need to run this, use the terminal directly."]
                    /\ sysPc' = "done"
                    /\ sysStarted' = sysStarted
               ELSE /\ sysStarted' = Append(sysStarted, sysCommand)
                    /\ sysPc' = "exec"
                    /\ sysResult' = sysResult
       IN  Checked(blockedIn(sysCommand))
    /\ UNCHANGED << sysCommand, botVars, nlpVars, parseVars, waVars, remVars, todoVars >>

\* lines 40-63: exec settles, with the output of the process or with an error
ExecSettles(ok) ==
    /\ sysPc = "exec"
    /\ sysPc' = "done"
    /\ sysResult' = IF ok
                    THEN [success |-> TRUE,
                          output |-> " Command executed:\n\nok\n"]
                    ELSE [success |-> FALSE, error |-> " Command failed: Command failed"]
    /\ UNCHANGED << sysCommand, sysStarted, botVars, nlpVars, parseVars, waVars,
                    remVars, todoVars >>

SysSpec == SysInit /\ [][RunCommand \/ \E ok \in BOOLEAN : ExecSettles(ok)]_vars

----------------------------------------------------------------------------
(* ProductivityManager: the reminders.  setInterval starts a run of the    *)
(* checker's callback at every period; a run is suspended at its await of  *)
(* saveData, and the next run can begin before it is over.                 *)

MaxReminders == 2

MaxClock == 2

\* the first reminder from index from on that is due at time t, completed
\* or not; 0 when there is none
nextDueAgain(list, from, t) ==
    LET First(ks) == IF ks = {} THEN 0 ELSE Min(ks)
    IN  First({k \in from..Len(list) : list[k].triggerAt <= t})

\* startReminderChecker, lines 202-203: the first reminder from index from
\* on that the loop of a run with const now = t acts on; 0 when the loop ends
nextDue(list, from, t) ==
    LET First(ks) == IF ks = {} THEN 0 ELSE Min(ks)
    IN  First({k \in from..Len(list) : ~list[k].completed /\ list[k].triggerAt <= t})

RemInit ==
    /\ botAtRest /\ nlpAtRest /\ parseAtRest /\ waAtRest /\ sysAtRest /\ todoAtRest
    /\ clock = 0
    \* loadData: no file yet, or a file with a reminder that is completed
    /\ reminders \in {<< >>,
                      << [message |-> "pay the rent", triggerAt |-> 0, completed |-> TRUE] >>}
    /\ tickPc = [t \in Ticks |-> "idle"]
    /\ tickNow = [t \in Ticks |-> 0]
    /\ tickAt = [t \in Ticks |-> 0]
    /\ triggered = << >>

\* addReminder, lines 127-139
AddReminder(triggerAt) ==
    /\ Len(reminders) < MaxReminders
    /\ reminders' = Append(reminders,
                           [message |-> "call mom", triggerAt |-> triggerAt,
                            completed |-> FALSE])
    /\ UNCHANGED << clock, tickPc, tickNow, tickAt, triggered >>
    /\ UNCHANGED << botVars, nlpVars, parseVars, waVars, sysVars, todoVars >>

\* lines 202-205 for run t, from index from: the loop goes to the next
\* reminder that is due, marks it and awaits saveData, or ends
Loop(t, from, at) ==
    LET Marked(k) ==
            IF k = 0
            THEN /\ tickPc' = [tickPc EXCEPT ![t] = "idle"]
                 /\ UNCHANGED << reminders, tickAt >>
            ELSE /\ reminders' = [reminders EXCEPT ![k].completed = TRUE]
                 /\ tickAt' = [tickAt EXCEPT ![t] = k]
                 /\ tickPc' = [tickPc EXCEPT ![t] = "saving"]
    IN  Marked(nextDue(reminders, from, at))

\* lines 199-205: the interval fires and run t of the callback begins
StartTick(t) ==
    /\ tickPc[t] = "idle"
    /\ tickNow' = [tickNow EXCEPT ![t] = clock]
    /\ Loop(t, 1, clock)
    /\ UNCHANGED << clock, triggered >>
    /\ UNCHANGED << botVars, nlpVars, parseVars, waVars, sysVars, todoVars >>

\* lines 205-211: saveData settles for run t.  When it is fulfilled the
\* callback onReminderTrigger is called and the loop goes on; when it is
\* rejected the run ends
SaveSettles(t, ok) ==
    /\ tickPc[t] = "saving"
    /\ IF ok
       THEN /\ triggered' = Append(triggered,
                                   [index |-> tickAt[t], now |-> tickNow[t],
                                    reminder |-> reminders[tickAt[t]]])
            /\ Loop(t, tickAt[t] + 1, tickNow[t])
       ELSE /\ tickPc' = [tickPc EXCEPT ![t] = "idle"]
            /\ UNCHANGED << reminders, tickAt, triggered >>
    /\ UNCHANGED << clock, tickNow >>
    /\ UNCHANGED << botVars, nlpVars, parseVars, waVars, sysVars, todoVars >>

\* time passes
Advance ==
    /\ clock < MaxClock
    /\ clock' = clock + 1
    /\ UNCHANGED << reminders, tickPc, tickNow, tickAt, triggered >>
    /\ UNCHANGED << botVars, nlpVars, parseVars, waVars, sysVars, todoVars >>

RemSpec ==
    RemInit /\ [][\/ \E triggerAt \in 0..MaxClock : AddReminder(triggerAt)
                  \/ \E t \in Ticks : StartTick(t)
                  \/ \E t \in Ticks, ok \in BOOLEAN : SaveSettles(t, ok)
                  \/ Advance]_vars

----------------------------------------------------------------------------
(* ProductivityManager: the todos.                                         *)

MaxTodos == 3

\* getTodos, lines 100-106: what it returns, and the stored todos after it
\* (sort works in place, and without the filter it works on this.todos)
getTodos(list, includeCompleted) ==
    LET NotDone(todo) == ~todo.done
        High(todo)    == todo.priority = "high"
        Medium(todo)  == todo.priority = "medium"
        Low(todo)     == todo.priority = "low"
        Sorted(filtered) ==
            SelectSeq(filtered, High) \o SelectSeq(filtered, Medium) \o SelectSeq(filtered, Low)
    IN  IF includeCompleted
        THEN [result |-> Sorted(list), todos |-> Sorted(list)]
        ELSE [result |-> Sorted(SelectSeq(list, NotDone)), todos |-> list]

\* completeTodo, lines 108-124, with a number: the stored todos after it and
\* the id of the todo it marked, 0 when it found none
completeTodo(list, index) ==
    LET Marked(active) ==
            IF index > Len(active) THEN [todos |-> list, marked |-> 0]
            ELSE [todos |-> [k \in 1..Len(list) |->
                                IF k = active[index] THEN [list[k] EXCEPT !.done = TRUE]
                                ELSE list[k]],
                  marked |-> list[active[index]].id]
        \* the positions of the todos that are not done, in stored order
        Positions(ks) == [n \in 1..Cardinality(ks) |->
                             CHOOSE k \in ks : Cardinality({j \in ks : j < k}) = n - 1]
    IN  Marked(Positions({k \in 1..Len(list) : ~list[k].done}))

TodoInit ==
    /\ botAtRest /\ nlpAtRest /\ parseAtRest /\ waAtRest /\ sysAtRest /\ remAtRest
    /\ todos = << >>
    /\ listed = NoValue
    /\ completion = NoValue

\* addTodo, lines 85-98
AddTodo(priority) ==
    /\ Len(todos) < MaxTodos
    /\ todos' = Append(todos, [id |-> Len(todos) + 1, priority |-> priority, done |-> FALSE])
    /\ UNCHANGED << listed, completion >>
    /\ UNCHANGED << botVars, nlpVars, parseVars, waVars, sysVars, remVars >>

\* getTodos is called: by the get_todos command (task-executor.ts, line
\* 134), without an argument, or with includeCompleted set
GetTodos(includeCompleted) ==
    /\ todos # << >>
    /\ listed' = [result |-> getTodos(todos, includeCompleted).result, stored |-> todos]
    /\ todos' = getTodos(todos, includeCompleted).todos
    /\ UNCHANGED completion
    /\ UNCHANGED << botVars, nlpVars, parseVars, waVars, sysVars, remVars >>

\* the complete_todo command (task-executor.ts, line 145) with a number;
\* shown is the list getTodos gives at that time
CompleteTodo(index) ==
    /\ todos # << >>
    /\ todos' = completeTodo(todos, index).todos
    /\ completion' = [index  |-> index,
                      shown  |-> getTodos(todos, FALSE).result,
                      marked |-> completeTodo(todos, index).marked]
    /\ UNCHANGED listed
    /\ UNCHANGED << botVars, nlpVars, parseVars, waVars, sysVars, remVars >>

TodoSpec ==
    TodoInit /\ [][\/ \E priority \in {"low", "medium", "high"} : AddTodo(priority)
                   \/ \E includeCompleted \in BOOLEAN : GetTodos(includeCompleted)
                   \/ \E index \in 1..MaxTodos : CompleteTodo(index)]_vars

----------------------------------------------------------------------------
(* Properties.                                                             *)

Done(c) == pc[c] = "done"

Errored(c) == Done(c) /\ caught[c] # NoValue

Handled(c) == Done(c) /\ caught[c] = NoValue

LastTurns(log, n) == IF Len(log) > n THEN SubSeq(log, Len(log) - n + 1, Len(log)) ELSE log

\* p is the end of s
endsWith(s, p) == MatchAt(s, p, Len(s) - Len(p) + 1)

ApologyPrefix == " Sorry, I encountered an error: "

\* the local classifier's results for a message: LocalNLP.process, under any
\* profile, and the rule-based fallbackParse the orchestrator carries itself
LocalResults(msg) ==
    UNION {processTable[msg][p] : p \in Profiles}
    \cup {fallbackTable[msg][u] : u \in RandomDraws}

\* the classifier has nothing but its generic fallback, without actions
OnlyGenericFallback(msg) ==
    \/ \E p \in Profiles :
          firstTruthy(<< profileField(p, "botPersonality", "fallbackMessage") >>,
                      DefaultFallbackMessage) \in processTable[msg][p]
    \/ fallbackBranch(msg) = "default"

RateLimited(c) ==
    generated[c] # NoValue /\ ~generated[c].ok /\ includes(generated[c].error, "429")

FailedOtherwise(c) ==
    generated[c] # NoValue /\ ~generated[c].ok /\ ~includes(generated[c].error, "429")

\* C1: the model is called for a message only when the local classifier has
\* nothing but its generic fallback for it; for a message the classifier
\* answers or routes, no model call is made and the classifier's result is
\* the orchestrator's result
ClassifierGatesModel ==
    \A c \in Calls :
        pc[c] # "idle" /\ ~OnlyGenericFallback(message[c]) =>
            /\ modelCalls[c] = 0
            /\ aiResponse[c] # NoValue => aiResponse[c] \in LocalResults(message[c])

\* C2: when the model call fails with a rate limit the orchestrator returns
\* the local fallback's actions and a text that is a prefix followed by the
\* local fallback's text
RateLimitDegradesToLocal ==
    \A c \in Calls :
        RateLimited(c) =>
            /\ aiResponse[c] # NoValue
            /\ \E r \in LocalResults(message[c]) :
                  /\ endsWith(ToStr(aiResponse[c].response), ToStr(r.response))
                  /\ aiResponse[c].commands = r.commands

\* C3: when the model call fails with another error the orchestrator returns
\* exactly the local classifier's result, text and actions
OtherFailureDegradesToLocal ==
    \A c \in Calls :
        FailedOtherwise(c) =>
            /\ aiResponse[c] # NoValue
            /\ aiResponse[c] \in LocalResults(message[c])

\* C4: processMessage never lets an exception out: every call that has
\* ended has a reply with a text, and when its catch block got an error the
\* reply is flagged as an error and its text is the apology
FacadeNeverThrows ==
    \A c \in Calls :
        /\ pc[c] \in {"idle", "generate", "resume", "execute", "done"}
        /\ Done(c) => "text" \in DOMAIN reply[c]
        /\ Errored(c) =>
              /\ startsWith(reply[c].text, ApologyPrefix)
              /\ "error" \in DOMAIN reply[c] /\ reply[c].error

FacadeCaughtAnError == \E c \in Calls : Errored(c)

\* C5: the text of the error reply does not depend on the caught exception:
\* two calls that failed have the same text, and the text of a failed call
\* does not contain the message of the error
ErrorReplyIsGeneric ==
    /\ \A c, d \in Calls : Errored(c) /\ Errored(d) => reply[c].text = reply[d].text
    /\ \A c \in Calls : Errored(c) => ~includes(reply[c].text, caught[c].message)

\* C6: a stored session has at most 20 turns and they are the most recently
\* appended turns of the sender, in the order they were appended
SessionBounded ==
    \A s \in Senders :
        /\ Len(getConversationHistory(conversationHistory, s)) <= MaxHistory
        /\ getConversationHistory(conversationHistory, s) = LastTurns(appended[s], MaxHistory)

SessionWasTruncated ==
    \E s \in Senders : Len(appended[s]) > MaxHistory

SeedOf(s) == IF s = "alice" THEN CHOOSE n \in SeedLengths : TRUE ELSE 0

PairsOf(s) == {c \in Calls : Handled(c) /\ senderId[c] = s}

IsPairs(turns) ==
    /\ Len(turns) % 2 = 0
    /\ \A i \in 1..Len(turns) :
          turns[i].role = (IF i % 2 = 1 THEN "user" ELSE "assistant")

\* C7: a handled message adds its user turn and then its assistant turn, next
\* to each other, to the session of its sender and to no other; calls that
\* overlap lose or duplicate no turn, and a session is a sequence of
\* user/assistant pairs
TurnsArePaired ==
    \A s \in Senders :
        /\ IsPairs(appended[s])
        /\ IsPairs(getConversationHistory(conversationHistory, s))
        /\ Len(appended[s]) = SeedOf(s) + 2 * Cardinality(PairsOf(s))
        /\ \A c \in PairsOf(s) :
              \E i \in 1..(Len(appended[s]) - 1) :
                  /\ i % 2 = 1
                  /\ appended[s][i] = Turn("user", JStr(message[c]))
                  /\ appended[s][i + 1] = Turn("assistant", aiResponse[c].response)

\* two calls of one sender overlapped: the one that began later (it went
\* through the executor) finished first, and both sessions' turns are there
OverlappingCallsHandled ==
    \E s \in Senders :
        /\ Cardinality(PairsOf(s)) = 2
        /\ \E c, d \in PairsOf(s) :
              /\ c < d
              /\ message[c] # message[d]
              /\ appended[s][Len(appended[s]) - 1] = Turn("user", JStr(message[c]))
              /\ appended[s][Len(appended[s]) - 3] = Turn("user", JStr(message[d]))

\* the kinds of Action the classifier and the model are told to emit
ActionKinds == {"smart_search", "sports_search", "news_search", "person_search",
                "music_search", "movie_search", "youtube_search", "amazon_search",
                "location_search", "game_search", "image_search"}

IsAction(entry) ==
    /\ entry.j = "obj"
    /\ Get(entry, "type").j = "str"
    /\ Get(entry, "type").s \in ActionKinds

\* the kinds of the Actions in the orchestrator's result, in order
ResultActionKinds(c) ==
    IF aiResponse[c].commands.j # "arr" THEN << >>
    ELSE LET acts == SelectSeq(aiResponse[c].commands.a, IsAction)
         IN  [i \in 1..Len(acts) |-> Get(acts[i], "type").s]

IsCall(ev) == ev.e = "call"

IsActionCall(ev) == ev.e = "call" /\ ev.command.type \in ActionKinds

\* the kinds of the Actions handed to the executor, in order
ExecutedActionKinds(c) ==
    LET calls == SelectSeq(events[c], IsActionCall)
    IN  [i \in 1..Len(calls) |-> calls[i].command.type]

\* C8: every Action of the result is passed to the executor exactly once
ActionsExecutedOnce ==
    \A c \in Calls : Handled(c) => ExecutedActionKinds(c) = ResultActionKinds(c)

HasOutput(ev) == ev.e = "return" /\ "output" \in DOMAIN ev.result /\ ev.result.output # ""

\* the outputs the executor gave, in the order it gave them
OutputsOf(evs) ==
    LET rets == SelectSeq(evs, HasOutput)
    IN  [i \in 1..Len(rets) |-> rets[i].result.output]

\* C9: the commands of a reply are executed one at a time in their order (a
\* command is handed to the executor only after the one before it returned),
\* and the outputs stand in the results section in that order
ExecutedInOrder ==
    \A c \in Calls :
        /\ \A k \in 1..Len(events[c]) :
              /\ events[c][k].e = (IF k % 2 = 1 THEN "call" ELSE "return")
              /\ events[c][k].command = commands[c][(k + 1) \div 2]
        /\ pc[c] = "execute" => Len(events[c]) = 2 * next[c] - 1
        /\ executionResults[c] = OutputsOf(events[c])
        /\ Handled(c) =>
              /\ Len(events[c]) = 2 * Len(commands[c])
              /\ OutputsOf(events[c]) # << >> =>
                    endsWith(reply[c].text, ResultsHeader \o join(OutputsOf(events[c]), "\n"))

SeveralOutputsInReply ==
    \E c \in Calls :
        /\ Handled(c)
        /\ Len(OutputsOf(events[c])) >= 2
        /\ OutputsOf(events[c])[1] # OutputsOf(events[c])[2]

HasError(ev) == ev.e = "return" /\ "error" \in DOMAIN ev.result

\* C10: the error of a failed action is in the results text of the reply,
\* the remaining actions are executed and the reply is returned
ActionErrorsSurfaced ==
    \A c \in Calls :
        Handled(c) =>
            /\ Len(SelectSeq(events[c], IsCall)) = Len(commands[c])
            /\ \A k \in 1..Len(events[c]) :
                  HasError(events[c][k]) => includes(reply[c].text, events[c][k].result.error)

----------------------------------------------------------------------------
(* The orchestrator and the model.                                         *)

\* C14: without a configured model no call of the model is ever made or
\* awaited, and every message that was taken up has the orchestrator's
\* response, a non-empty text; its handling ends with a reply, not an error
NoModelNoCall ==
    \A c \in Calls :
        ~model =>
            /\ modelCalls[c] = 0
            /\ pc[c] # "generate"
            /\ pc[c] # "idle" =>
                  /\ aiResponse[c] # NoValue
                  /\ aiResponse[c].response.j = "str"
                  /\ aiResponse[c].response.s # ""
            /\ Done(c) => Handled(c) /\ reply[c].text # ""

RespondedWithoutModel == \E c \in Calls : ~model /\ Done(c)

\* C15: the model is called at most once for a message, and once the call
\* has settled, failed or not, the message never waits for the model again
AtMostOneModelCall ==
    \A c \in Calls :
        /\ modelCalls[c] <= 1
        /\ generated[c] # NoValue => pc[c] # "generate" /\ modelCalls[c] = 1

ModelCallFailedOnce ==
    \E c \in Calls :
        /\ generated[c] # NoValue /\ ~generated[c].ok
        /\ Done(c) /\ modelCalls[c] = 1

----------------------------------------------------------------------------
(* The local classifier                                                    *)

\* text made of numeric literals, + - * / ( ) . and the power operation only
OnlyArithmetic(text) ==
    \A i \in 1..Len(text) :
        \/ SubSeq(text, i, i) \in DigitChars \cup {"+", "-", "*", "/", "(", ")", ".", " ", ","}
        \/ \E j \in (i - 7)..i : j >= 1 /\ MatchAt(text, "Math.pow", j)

\* C11: whatever evaluateMath hands to evaluation is pure arithmetic, and an
\* input whose expression is anything else gets no math answer
OnlyArithmeticEvaluated ==
    nlpResult # NoValue =>
        /\ nlpEvaluated # NoValue => OnlyArithmetic(nlpEvaluated.s)
        /\ ~OnlyArithmetic(mathExpr(trim(nlpMessage))) /\ parseWordMath(trim(nlpMessage)) = ""
              => evaluateMath(trim(nlpMessage)) = {MathNull}

\* C18: process gives a result for every message and every profile, absent or
\* present: a response text and a list of commands, never an exception
ClassifyIsTotal ==
    nlpResult # NoValue =>
        /\ DOMAIN nlpResult = {"response", "commands"}
        /\ nlpResult.response.j = "str" /\ nlpResult.response.s # ""
        /\ nlpResult.commands.j = "arr"

\* what each stage of process says of the message, in the order of the
\* cascade: math, knowledge base, common questions, search routing,
\* conversation, default
Stages(msg, profile) ==
    LET input == trim(msg)
        lower == toLowerCase(input)
    IN  << {IF r = MathNull THEN NoMatch ELSE Answer(" = **" \o r.number \o "**") :
               r \in evaluateMath(input)},
           {IF matchKnowledgeBase(lower, profile) = "" THEN NoMatch
            ELSE Answer(matchKnowledgeBase(lower, profile))},
           matchCommonQuestions(lower),
           detectSearchIntent(lower, input),
           handleConversation(lower, profile),
           {IF SplitSpaceLength(input) >= 2
            THEN Search(" Let me search that for you!", "smart_search", input)
            ELSE firstTruthy(<< profileField(profile, "botPersonality", "fallbackMessage") >>,
                             DefaultFallbackMessage)} >>

\* C19: the result of process is the result of one stage, and every stage
\* before that one declined the message
FirstStageWins ==
    nlpResult # NoValue =>
        LET stage == Stages(nlpMessage, nlpProfile)
        IN  \E k \in 1..6 :
                /\ nlpResult \in stage[k] \ {NoMatch}
                /\ \A j \in 1..(k - 1) : NoMatch \in stage[j]

\* a common question answered although the search routing claims it too
CommonQuestionBeforeSearch ==
    /\ nlpResult # NoValue
    /\ LET stage == Stages(nlpMessage, nlpProfile)
       IN  /\ nlpResult \in stage[3] \ {NoMatch}
           /\ stage[4] # {NoMatch}
           /\ stage[1] = {NoMatch}

\* the categories of the search routing, highest priority first, and the
\* words that make a message belong to each
CategoryOrder == <<
    "sports_search", "news_search", "person_search", "music_search", "movie_search",
    "youtube_search", "amazon_search", "location_search", "game_search", "image_search",
    "smart_search" >>

MatchingCategories(lower) ==
    LET words == <<
            {"score", "match", "vs", "cricket", "football", "ipl", "t20", "live",
             "world cup", "playing"},
            {"news", "latest", "breaking", "headlines", "update"},
            {"who is", "about", "biography", "wiki"},
            {"song", "music", "play", "listen", "album", "singer", "lyrics", "spotify"},
            {"movie", "film", "watch", "series", "show", "netflix", "prime", "imdb"},
            {"video", "youtube", "tutorial", "how to", "watch how"},
            {"buy", "price", "amazon", "flipkart", "shop", "order", "cost", "cheap"},
            {"location", "map", "direction", "where is", "near me", "restaurant", "hotel",
             "address"},
            {"game", "gameplay", "steam", "gaming", "xbox", "playstation", "pc game"},
            {"image", "photo", "picture", "wallpaper", "pic of"},
            {"what", "when", "where", "why", "how", "search", "find", "google", "tell me",
             "explain"} >>
    IN  {k \in 1..11 : IF k \in {3, 11} THEN MatchStartWord(lower, words[k])
                       ELSE MatchWords(lower, words[k])}

\* C20: no result carries more than one action, and the search routing
\* answers a message exactly when some category matches it, with the one
\* action of the matching category of highest priority
OneActionOfTopCategory ==
    nlpResult # NoValue /\ "commands" \in DOMAIN nlpResult =>
        LET input    == trim(nlpMessage)
            matching == MatchingCategories(toLowerCase(input))
            routed   == detectSearchIntent(toLowerCase(input), input)
        IN  /\ Len(nlpResult.commands.a) <= 1
            /\ matching = {} => routed = {NoMatch}
            /\ matching # {} =>
                  \A r \in routed :
                      /\ r # NoMatch
                      /\ Len(r.commands.a) = 1
                      /\ Get(r.commands.a[1], "type") = JStr(CategoryOrder[Min(matching)])

\* the routing answered a message that several categories match
SeveralCategoriesOneAction ==
    /\ nlpResult # NoValue
    /\ LET input == trim(nlpMessage)
       IN  /\ nlpResult \in detectSearchIntent(toLowerCase(input), input)
           /\ Cardinality(MatchingCategories(toLowerCase(input))) >= 2

\* the words of a text, split at blanks
RECURSIVE WordsOf(_)
WordsOf(text) ==
    IF text = "" THEN {}
    ELSE IF CharAt(text, 1) \in WhiteChars THEN WordsOf(Tail(text))
    ELSE LET ends == {i \in 1..Len(text) : CharAt(text, i) \in WhiteChars}
             end  == IF ends = {} THEN Len(text) + 1 ELSE Min(ends)
         IN  {SubSeq(text, 1, end - 1)} \cup WordsOf(SubSeq(text, end, Len(text)))

\* the queries of the actions of a result
QueriesOf(result) ==
    IF "commands" \in DOMAIN result
    THEN {Get(Get(result.commands.a[k], "params"), "query").s : k \in 1..Len(result.commands.a)}
    ELSE {}

\* C21: every query the classifier takes from the message is made of words
\* of the message in their original letter case (the news routing alone may
\* put its own word, trending, when nothing of the message is left)
QueryKeepsCase ==
    nlpResult # NoValue =>
        \A query \in QueriesOf(nlpResult) \ {"trending"} :
            \A word \in WordsOf(query) : includes(trim(nlpMessage), word)

\* the entries of the profile's knowledge base one of whose patterns is, in
\* any letter case, a part of the message
MatchingEntries(msg, profile) ==
    LET entries == Get(profile, "knowledgeBase").a
    IN  {i \in 1..Len(entries) :
            \E k \in 1..Len(Get(entries[i], "patterns").a) :
                includes(toLowerCase(trim(msg)),
                         toLowerCase(Get(entries[i], "patterns").a[k].s))}

\* C22: a message that is no math and that entries of the knowledge base
\* match is answered with the answer of the first of them in the profile
FirstEntryAnswers ==
    /\ nlpResult # NoValue
    /\ nlpProfile.j = "obj" /\ Truthy(Get(nlpProfile, "knowledgeBase"))
    /\ evaluateMath(trim(nlpMessage)) = {MathNull}
    =>  LET matching == MatchingEntries(nlpMessage, nlpProfile)
        IN  matching # {} =>
                nlpResult = Answer(Get(Get(nlpProfile, "knowledgeBase").a[Min(matching)],
                                       "answer").s)

\* a message that two entries match, in another letter case than their
\* patterns, was answered
TwoEntriesMatched ==
    /\ nlpResult # NoValue
    /\ nlpProfile.j = "obj" /\ Truthy(Get(nlpProfile, "knowledgeBase"))
    /\ Cardinality(MatchingEntries(nlpMessage, nlpProfile)) >= 2
    /\ nlpResult = Answer("Manthan knows TypeScript.")
    /\ nlpMessage # toLowerCase(nlpMessage)

\* the number of tokens of a text that whitespace separates
WhitespaceTokens(text) ==
    Cardinality({i \in 1..Len(text) :
        /\ CharAt(text, i) \notin WhiteChars
        /\ (i = 1 \/ CharAt(text, i - 1) \in WhiteChars)})

\* C23: a message no stage claims gets one generic search over its full
\* text exactly when it has two tokens or more, whatever whitespace
\* separates them, and the fallback message with no action otherwise
DefaultSearchOnTwoTokens ==
    nlpResult # NoValue /\ "commands" \in DOMAIN nlpResult =>
        LET stage == Stages(nlpMessage, nlpProfile)
        IN  (\A k \in 1..5 : stage[k] = {NoMatch}) =>
                IF WhitespaceTokens(trim(nlpMessage)) >= 2
                THEN nlpResult = Search(" Let me search that for you!", "smart_search",
                                        trim(nlpMessage))
                ELSE /\ nlpResult.commands = JArr(<< >>)
                     /\ nlpResult.response \in
                            {JStr(DefaultFallbackMessage)} \cup
                            {Get(Get(nlpProfile, "botPersonality"), "fallbackMessage") :
                                 p \in {q \in {nlpProfile} :
                                            /\ q.j = "obj"
                                            /\ Get(q, "botPersonality").j = "obj"}}

\* a text has a number token and an operator word, each as a whole word
HasWholeMathWords(text) ==
    /\ \/ \E k \in 1..Len(NumberWords) : MatchWords(text, {NumberWords[k][1]})
       \/ \E i \in 1..Len(text) : CharAt(text, i) \in DigitChars
    /\ \E k \in 1..Len(OperatorWords) : MatchWords(text, {OperatorWords[k][1]})

\* C27: a text without a number token and an operator word, each as a whole
\* word, gives no expression, and the classifier does not answer it as math
WordMathNeedsWholeWords ==
    nlpResult # NoValue =>
        LET input == trim(nlpMessage)
        IN  ~HasWholeMathWords(toLowerCase(input)) =>
                /\ parseWordMath(input) = ""
                /\ ~IsPlainMath(input) /\ ~HasMathStart(input)
                       => evaluateMath(input) = {MathNull}

----------------------------------------------------------------------------
(* The reading of a model reply                                            *)

\* the JSON objects that can be parsed out of the raw text, in text order
ObjectsIn(pieces) ==
    {i \in 1..Len(pieces) : pieces[i].k = "json" /\ pieces[i].v.j = "obj"}

\* C16: when the raw text holds a JSON object with a response (a non-empty
\* one), alone, fenced or inside prose, the reply's text is that field; when it holds no
\* JSON object, the reply is the raw text and no commands
ReplyParsedOutOfText ==
    parsedReply # NoValue =>
        /\ \A i \in ObjectsIn(rawText) :
              i = Min(ObjectsIn(rawText)) /\ Truthy(Get(rawText[i].v, "response"))
                  => parsedReply.response = Get(rawText[i].v, "response")
        /\ ObjectsIn(rawText) = {}
              => parsedReply = AIResponse(JStr(Render(rawText)), JArr(<< >>))

\* the commands of the JSON object that was read from the raw text, when it
\* has a response and a list of commands; << >> otherwise
ReplyCommands ==
    LET objs == {i \in ObjectsIn(rawText) :
                    /\ Truthy(Get(rawText[i].v, "response"))
                    /\ Get(rawText[i].v, "commands").j = "arr"
                    /\ parsedReply.commands = Get(rawText[i].v, "commands")}
    IN  IF objs = {} THEN << >> ELSE Get(rawText[Min(objs)].v, "commands").a

\* C17: the commands of a parsed reply are normalized and never make the
\* handling fail: an entry that is no object or has an unknown type is
\* dropped, an entry without type becomes a generic search, an entry
\* without params gets empty parameters, the other entries keep their type
CommandsNormalized ==
    parsedReply # NoValue =>
        LET Kept(e) == /\ e.j = "obj"
                       /\ \/ Get(e, "type") = Undefined
                          \/ Get(e, "type").j = "str" /\ Get(e, "type").s \in validCommands
            kept == SelectSeq(ReplyCommands, Kept)
        IN  /\ parsedCommands.ok
            /\ Len(parsedCommands.v) = Len(kept)
            /\ \A i \in 1..Len(kept) :
                  /\ Get(kept[i], "type") = Undefined
                        => parsedCommands.v[i].type \in {"web_search", "smart_search"}
                  /\ Get(kept[i], "type") # Undefined
                        => parsedCommands.v[i].type = Get(kept[i], "type").s
                  /\ Get(kept[i], "params") = Undefined
                        => parsedCommands.v[i].params = JObj([k \in {} |-> Undefined])

----------------------------------------------------------------------------
(* The owner takeover                                                      *)

\* what isPaused(chat) says now
Paused(jid) == isPausedForChat(pausedChats, jid, now).result

\* C12: the bot is never called for a message of a chat that is paused at
\* that moment, and no reply of the bot is sent into a chat that is paused
PausedChatNeverReachesBot ==
    \A i \in 1..Len(waEvents) : ~waEvents[i].paused

TakeoverEnabled ==
    IF ownerProfile = NoProfile THEN FALSE ELSE ownerProfile.ownerTakeover.enabled

\* the pause duration in milliseconds: the configured seconds, or the
\* default when none are configured
PauseDuration ==
    LET seconds == IF ownerProfile = NoProfile THEN 0
                   ELSE ownerProfile.ownerTakeover.pauseDurationSeconds
    IN  (IF seconds # 0 THEN seconds ELSE DefaultPauseSeconds) * 1000

\* the chat's last operator message, at time t, pauses it until
\* t + PauseDuration: the entry says so as long as it exists, and the chat
\* is reported paused exactly up to that time
PausedAfterOwner(jid) ==
    /\ jid \in DOMAIN pausedChats => pausedChats[jid] = lastOwner[jid] + PauseDuration
    /\ now <= lastOwner[jid] + PauseDuration => jid \in DOMAIN pausedChats
    /\ Paused(jid) <=> now <= lastOwner[jid] + PauseDuration

\* C13 as stated: every operator message pauses its chat
OwnerMessagePauses ==
    \A jid \in DOMAIN lastOwner : PausedAfterOwner(jid)

\* C13: with the takeover enabled in a loaded profile, an operator message
\* at time t pauses its chat until t + PauseDuration, the last such message
\* counting; a chat without operator message, or any chat when the takeover
\* is not enabled, is never reported paused and has no entry
TakeoverPauses ==
    \A jid \in Jids :
        IF TakeoverEnabled /\ jid \in DOMAIN lastOwner
        THEN PausedAfterOwner(jid)
        ELSE ~Paused(jid) /\ jid \notin DOMAIN pausedChats

\* a pause that came to its end and whose entry a later message removed
PauseExpired ==
    /\ TakeoverEnabled
    /\ \E jid \in DOMAIN lastOwner :
          /\ now > lastOwner[jid] + PauseDuration
          /\ jid \notin DOMAIN pausedChats
    /\ \E h \in Handlers : hpc[h] = "typing"

IsSpecified(senderNumber, entries) ==
    \E entry \in entries :
        /\ removeNonDigits(entry) # ""
        /\ endsWith(senderNumber, removeNonDigits(entry))

\* C25: with a whitelist configured, the bot is invoked and replies only
\* for senders whose number the whitelist specifies
WhitelistKeepsOthersOut ==
    allowedNumbers # {} =>
        \A k \in 1..Len(waEvents) :
            waEvents[k].kind \in {"invoke", "reply"} =>
                IsSpecified(senderNumberOf(waEvents[k].jid), allowedNumbers)

----------------------------------------------------------------------------
(* The running of system commands                                          *)

\* a blocked command is a part of the text, in some letter case
ContainsBlocked(text) ==
    \E k \in 1..Len(blockedCommands), i \in 1..Len(text) :
        /\ i + Len(blockedCommands[k]) - 1 <= Len(text)
        /\ toLowerCase(SubSeq(text, i, i + Len(blockedCommands[k]) - 1)) = blockedCommands[k]

\* C26: no command that contains a blocked command is given to exec, and the
\* call for such a command ends in a failure that names a blocked command
\* of the text
BlockedCommandNeverRuns ==
    /\ \A k \in 1..Len(sysStarted) : ~ContainsBlocked(sysStarted[k])
    /\ sysPc # "idle" /\ ContainsBlocked(sysCommand) =>
          /\ sysPc = "done"
          /\ ~sysResult.success
          /\ \E k \in 1..Len(blockedCommands) :
                /\ includes(sysResult.error, "\"" \o blockedCommands[k] \o "\"")
                /\ includes(toLowerCase(sysCommand), blockedCommands[k])

\* a command with a blocked command in capital letters was refused
CapitalBlockedRefused ==
    /\ sysPc = "done"
    /\ ContainsBlocked(sysCommand)
    /\ \A k \in 1..Len(blockedCommands) : ~includes(sysCommand, blockedCommands[k])
    /\ ~sysResult.success

----------------------------------------------------------------------------
(* The sessions and the error reply                                        *)

\* C28: the step in which a call ends in the error reply changes no
\* session, and a session changes only in the step in which a call of its
\* sender ends handled; a call that ended in the error reply has therefore
\* appended nothing, to its sender's session or to another
ErrorLeavesSessions ==
    [][/\ \A c \in Calls :
             caught'[c] # caught[c] =>
                 conversationHistory' = conversationHistory /\ appended' = appended
       /\ \A s \in Senders :
             \/ appended'[s] # appended[s]
             \/ getConversationHistory(conversationHistory', s)
                    # getConversationHistory(conversationHistory, s)
             => \E c \in Calls :
                    /\ senderId[c] = s
                    /\ pc[c] # "done" /\ pc'[c] = "done"
                    /\ caught'[c] = NoValue]_vars

\* a sender has a call that ended in the error reply and one that was handled
ErroredNextToHandled ==
    \E c, d \in Calls :
        /\ Errored(c) /\ Handled(d)
        /\ senderId[c] = senderId[d]

----------------------------------------------------------------------------
(* The reminders                                                           *)

\* C29: the callback is called at most once for a reminder, by a run at
\* whose time the reminder was due, and never for a reminder that was
\* completed when the data was loaded
TriggeredOnceWhenDue ==
    /\ \A i, j \in 1..Len(triggered) :
          triggered[i].index = triggered[j].index => i = j
    /\ \A i \in 1..Len(triggered) :
          /\ triggered[i].reminder.triggerAt <= triggered[i].now
          /\ triggered[i].now <= clock
          /\ triggered[i].reminder.message # "pay the rent"
          /\ reminders[triggered[i].index].completed

\* two runs of the checker were under way at once, one still saving, and a
\* reminder has been triggered
RunsOverlapped ==
    /\ triggered # << >>
    /\ \E t, u \in Ticks : t # u /\ tickPc[t] = "saving" /\ tickNow[u] > tickNow[t]

----------------------------------------------------------------------------
(* The todos                                                               *)

\* C30: completing by a number marks the todo that getTodos shows under
\* that number, and a call of getTodos leaves the stored todos as they were
CompleteMarksShown ==
    /\ [](completion # NoValue =>
             IF completion.index <= Len(completion.shown)
             THEN completion.marked = completion.shown[completion.index].id
             ELSE completion.marked = 0)
    /\ [][listed' # listed => todos' = todos]_vars

====
